---- MODULE Spec2Model ----
(***************************************************************************)
(* A model of FisherOCR-Tools:                                             *)
(*                                                                         *)
(*  - the collision-aware placement of text fragments in the per-image     *)
(*    worker of generate_synthetic_data (SynthData/generate_det_data.py):  *)
(*    Spec, the worker; CanvasSpec, two fragments at chosen positions;     *)
(*    LoopSpec, the attempt loop iteration by iteration;                   *)
(*  - the distortion pass apply_distortions_with_tracking, the point map   *)
(*    transform_coordinates and preprocess_image_with_annotations          *)
(*    (ImageFX/preprocess.py): DistortSpec, CoordSpec, PreSpec;            *)
(*  - the files written by generate_synthetic_data and by                  *)
(*    process_images_with_annotations: FilesSpec;                          *)
(*  - clean_nan_from_file (ocr_data/cleaner.py): CleanerSpec;              *)
(*  - transform_bboxes_2x3 and OCRPreprocessor                             *)
(*    (SynthData/OCRDataGenerator/preprocessing.py): BoxesSpec, OcrSpec.   *)
(***************************************************************************)
EXTENDS Integers, Sequences, FiniteSets, TLC

VARIABLES
    \* ---- generate_synthetic_data.worker ----
    pc,                 \* position of the worker in its body
    bg,                 \* <<bg_width, bg_height>> of the chosen background
    placed_boxes,       \* the registry of reserved boxes
    image_annotations,  \* the annotations returned for the image
    composite,          \* the pastes made on the canvas, in order
    remaining_texts,
    texts_drawn,        \* what random.randint yielded at line 303
    num_sections,
    section_idx,
    texts_in_section,   \* num_texts_in_section of the running call
    j,                  \* index of the running for-loop over texts
    text_items,         \* sizes of the prepared images of the running section
    section_width,
    section_height,
    section_ret,        \* what create_sequential_text_section returned
    singles_total,      \* range(remaining_texts) as evaluated at line 346
    placed,             \* the flag of the last placement loop
    attempts,           \* candidate positions the last placement loop drew
    \* ---- apply_distortions_with_tracking ----
    dpc,                \* position of the call in its body
    mode,               \* how the list of distortions was obtained
    distortions,        \* the list the loop of line 389 walks
    di,                 \* index of that loop
    image,              \* the image: its size and what its pixels underwent
    dims,               \* the locals <<width, height>>
    img_shape,          \* (height, width) as captured at line 360
    annotations,        \* the caller's list of regions
    updated_annotations,
    transformations,    \* the dict of line 363, in insertion order
    \* ---- one call of transform_coordinates ----
    cpc,                \* "ready" before the call, "returned" after it
    call_points,        \* the arguments
    call_transformation,
    call_shape,
    call_result,        \* the list returned
    \* ---- one call of preprocess_image_with_annotations ----
    ppc,                \* "start", "pass" (inside the distortion pass), "returned"
    annotation_data,    \* the argument: the regions of the image
    pre_result,         \* the pair returned
    saved,              \* whether cv2.imwrite has written the output image
    \* ---- one run of generate_synthetic_data or of
    \*      process_images_with_annotations ----
    program,            \* "generate" or "process"
    fpc,                \* position of the main thread
    files,              \* os.listdir(input_dir): the image file names, in order
    label_lines,        \* the lines of the input Label.txt
    annotations_by_image, \* the dicts of lines 697-698, keyed by file name
    image_paths,
    tasks,              \* the futures, in the order submitted
    fk,                 \* the index of the future the main thread waits for
    annotations_by_path, \* the dict collected from the results
    saved_images,       \* the output images written by the workers
    label_file,         \* the lines of the output Label.txt,
    cache_file,         \*   Cache.cach
    state_file,         \*   and fileState.txt
    written,            \* the names of the output files opened for writing
    \* ---- two fragments placed at chosen positions on one canvas ----
    tpc,                \* "first", "second", "end"
    canvas_boxes,       \* placed_boxes of the canvas
    positions,          \* the (x, y) that random.randint yields for each fragment
    accepted,           \* placed, for each fragment tried so far
    \* ---- runs of clean_nan_from_file on one file ----
    file_exists,        \* file_path.exists()
    file_lines,         \* lines, the lines of the file
    original_lines,     \* the lines before the first run
    previous_lines,     \* the lines before the last run
    runs,               \* the number of runs so far
    \* ---- one call of transform_bboxes_2x3 ----
    bpc,                \* position of the call: "loop", "returned", "raised"
    regions,            \* the argument regions
    affine_M,           \* the argument M, a 2x3 matrix
    region_idx,         \* the regions the loop has taken so far
    new_regions,        \* the list built by the loop
    \* ---- one run of the attempt loop of lines 373-413 ----
    apc,                \* "loop", "after" (line 396), "done"
    loop_bg,            \* <<bg_width, bg_height>>
    loop_img,           \* <<text_img.width, text_img.height>>
    loop_boxes,         \* placed_boxes
    loop_attempts,      \* iterations of the for-loop begun so far
    loop_xy,            \* <<x, y>> as last drawn
    loop_placed,        \* placed
    loop_pastes,        \* the pastes of line 400
    loop_annotations,   \* the annotations appended at line 413
    \* ---- one OCRPreprocessor and its call of process_directory ----
    main_pc,            \* the caller: "start", "submit", "wait", "returned"
    total_images,       \* len(image_paths)
    task_pc,            \* for each image, <<where its process_image call is, outcome>>
    count_lock,         \* the task holding self.count_lock, 0 when free
    processed_count,
    error_count,
    loaded,             \* for each task, the counter value its += has read
    increments          \* for each task, the counters it has written so far

wvars == <<pc, bg, placed_boxes, image_annotations, composite, remaining_texts,
           texts_drawn, num_sections, section_idx, texts_in_section, j, text_items,
           section_width, section_height, section_ret, singles_total, placed,
           attempts>>

dvars == <<dpc, mode, distortions, di, image, dims, img_shape, annotations,
           updated_annotations, transformations>>

cvars == <<cpc, call_points, call_transformation, call_shape, call_result>>

pvars == <<ppc, annotation_data, pre_result, saved>>

fvars == <<program, fpc, files, label_lines, annotations_by_image, image_paths,
           tasks, fk, annotations_by_path, saved_images, label_file, cache_file,
           state_file, written>>

tvars == <<tpc, canvas_boxes, positions, accepted>>

kvars == <<file_exists, file_lines, original_lines, previous_lines, runs>>

bvars == <<bpc, regions, affine_M, region_idx, new_regions>>

lvars == <<apc, loop_bg, loop_img, loop_boxes, loop_attempts, loop_xy,
           loop_placed, loop_pastes, loop_annotations>>

ovars == <<main_pc, total_images, task_pc, count_lock, processed_count,
           error_count, loaded, increments>>

\* what the steps of each part leave alone
beside_worker == <<dvars, cvars, pvars, fvars, tvars, kvars, bvars, lvars,
                   ovars>>
beside_distort == <<wvars, cvars, pvars, fvars, tvars, kvars, bvars, lvars,
                    ovars>>
beside_coord == <<wvars, dvars, pvars, fvars, tvars, kvars, bvars, lvars,
                  ovars>>
beside_files == <<wvars, dvars, cvars, pvars, tvars, kvars, bvars, lvars,
                  ovars>>
beside_canvas == <<wvars, dvars, cvars, pvars, fvars, kvars, bvars, lvars,
                   ovars>>
beside_cleaner == <<wvars, dvars, cvars, pvars, fvars, tvars, bvars, lvars,
                    ovars>>
beside_boxes == <<wvars, dvars, cvars, pvars, fvars, tvars, kvars, lvars,
                  ovars>>
beside_loop == <<wvars, dvars, cvars, pvars, fvars, tvars, kvars, bvars,
                 ovars>>
beside_ocr == <<wvars, dvars, cvars, pvars, fvars, tvars, kvars, bvars,
                lvars>>

vars == <<wvars, dvars, cvars, pvars, fvars, tvars, kvars, bvars, lvars,
          ovars>>

----------------------------------------------------------------------------
(* Bounds of the model and constants of the program.                       *)

\* the background images are BgWidth x BgHeight
BgWidth == 65
BgHeight == 122
\* candidate positions are taken every PosStep pixels of the valid rectangle
PosStep == 25

max_texts_per_image == 3
min_texts_per_image == 0
max_sequential_sections == 2
max_texts_per_section == 2

min_edge_distance == 20
default_min_distance == 10
max_attempts == 100
min_text_side == 20
spacing_lo == 5
spacing_hi == 15
default_shrink_factor == 0

Backgrounds == {<<BgWidth, BgHeight>>}

\* int(text_img.width * scale), int(text_img.height * scale) of a drawn crop
ScaledSizes == {<<15, 20>>, <<20, 20>>}
\* pixels by which rotate(expand=True) grows each side (0: rotation == 0)
RotationGrows == {0, 5}
Spacings == {spacing_lo, spacing_hi}
AttemptCounts == {1, max_attempts}

Max(a, b) == IF a >= b THEN a ELSE b
Min(a, b) == IF a <= b THEN a ELSE b

----------------------------------------------------------------------------
(* generate_det_data.py: the pure helpers.                                 *)

\* the test with its comparisons turned round
check_overlap_Reversed(boxes, new_box, min_distance) ==
    \E k \in 1..Len(boxes) :
        /\ new_box[1] - min_distance >= boxes[k][3]
        /\ new_box[3] + min_distance <= boxes[k][1]
        /\ new_box[2] - min_distance >= boxes[k][4]
        /\ new_box[4] + min_distance <= boxes[k][2]

\* the test with strict comparisons: ranges that merely touch do not overlap
check_overlap_Strict(boxes, new_box, min_distance) ==
    \E k \in 1..Len(boxes) :
        /\ new_box[1] - min_distance < boxes[k][3]
        /\ new_box[3] + min_distance > boxes[k][1]
        /\ new_box[2] - min_distance < boxes[k][4]
        /\ new_box[4] + min_distance > boxes[k][2]

\* lines 103-114
check_overlap(boxes, new_box, min_distance) ==
    \E k \in 1..Len(boxes) :
        /\ new_box[1] - min_distance <= boxes[k][3]
        /\ new_box[3] + min_distance >= boxes[k][1]
        /\ new_box[2] - min_distance <= boxes[k][4]
        /\ new_box[4] + min_distance >= boxes[k][2]

shrink_box(box, shrink_factor) ==
    LET width == box[3] - box[1]
        height == box[4] - box[2]
        shrink_x == (width * shrink_factor) \div 2
        shrink_y == (height * shrink_factor) \div 2
    IN <<box[1] + shrink_x, box[2] + shrink_y, box[3] - shrink_x, box[4] - shrink_y>>

get_corners_from_box(box) ==
    << <<box[1], box[2]>>, <<box[3], box[2]>>, <<box[3], box[4]>>, <<box[1], box[4]>> >>

Annotation(box) ==
    [transcription |-> "TEMPORARY",
     points |-> get_corners_from_box(shrink_box(box, default_shrink_factor)),
     difficult |-> FALSE,
     key_cls |-> "None"]

\* the size of text_img after resize and rotate(expand=True)
Rotated(size, grow) == <<size[1] + grow, size[2] + grow>>

TooSmall(size) == size[1] < min_text_side \/ size[2] < min_text_side

\* the positions the model samples out of random.randint(lo, hi)
Candidates(lo, hi) == {v \in lo..hi : (v - lo) % PosStep = 0 \/ v = hi}

\* the placement rectangle of a w x h box: <<x_min, x_max, y_min, y_max>>
ValidRect(w, h) ==
    <<min_edge_distance, bg[1] - w - min_edge_distance,
      min_edge_distance, bg[2] - h - min_edge_distance>>

\* the check at lines 206 and 383 that ends the attempt loop at once
CannotFit(r) == r[2] <= r[1] \/ r[4] <= r[3]

\* some position random.randint can draw is rejected by check_overlap, so a
\* run of the attempt loop can meet rejected candidates only
\* (check_overlap rejects <<x, y, x + w, y + h>> against box b exactly when
\* b[1] - w - d <= x <= b[3] + d and b[2] - h - d <= y <= b[4] + d)
SomeOverlap(r, w, h, boxes) ==
    LET d == default_min_distance IN
    {k \in 1..Len(boxes) :
        /\ Max(r[1], boxes[k][1] - w - d) <= Min(r[2], boxes[k][3] + d)
        /\ Max(r[3], boxes[k][2] - h - d) <= Min(r[4], boxes[k][4] + d)} # {}

\* a candidate position check_overlap rejects, when SomeOverlap holds
RejectedPosition(r, w, h, boxes) ==
    LET d == default_min_distance
        k == CHOOSE i \in 1..Len(boxes) :
                 /\ Max(r[1], boxes[i][1] - w - d) <= Min(r[2], boxes[i][3] + d)
                 /\ Max(r[3], boxes[i][2] - h - d) <= Min(r[4], boxes[i][4] + d)
    IN <<Max(r[1], boxes[k][1] - w - d), Max(r[3], boxes[k][2] - h - d)>>

\* The attempt loop (lines 198-217, and again 377-394) for a w x h box: the
\* outcomes its random draws can produce. x, y are the last position drawn
\* (the initial 0, 0 when none was), n the number of positions drawn. The
\* loop stops at the first accepted candidate; it ends with placed = FALSE
\* when the box cannot fit or when all max_attempts draws were rejected.
AttemptLoop(w, h, boxes) ==
    LET r == ValidRect(w, h) IN
    IF CannotFit(r)
      THEN {[placed |-> FALSE, x |-> 0, y |-> 0, n |-> 0]}
      ELSE LET free == {p \in Candidates(r[1], r[2]) \X Candidates(r[3], r[4]) :
                           ~check_overlap(boxes, <<p[1], p[2], p[1] + w, p[2] + h>>,
                                          default_min_distance)}
               counts == {m \in AttemptCounts : m = 1 \/ SomeOverlap(r, w, h, boxes)}
               rejected == RejectedPosition(r, w, h, boxes)
           IN {[placed |-> TRUE, x |-> p[1], y |-> p[2], n |-> m] :
                   p \in free, m \in counts}
              \cup
              (IF SomeOverlap(r, w, h, boxes)
                 THEN {[placed |-> FALSE, x |-> rejected[1], y |-> rejected[2],
                        n |-> max_attempts]}
                 ELSE {})

----------------------------------------------------------------------------
(* generate_synthetic_data.worker, lines 299-310.                          *)

WorkerInit ==
    /\ pc = "start"
    /\ bg = <<0, 0>>
    /\ placed_boxes = <<>>
    /\ image_annotations = <<>>
    /\ composite = <<>>
    /\ remaining_texts = 0
    /\ texts_drawn = 0
    /\ num_sections = 0
    /\ section_idx = 0
    /\ texts_in_section = 0
    /\ j = 0
    /\ text_items = <<>>
    /\ section_width = 0
    /\ section_height = 0
    /\ section_ret = <<<<>>, <<>>, <<>>>>
    /\ singles_total = 0
    /\ placed = FALSE
    /\ attempts = 0

WorkerStart ==
    /\ pc = "start"
    /\ \E b \in Backgrounds, n \in min_texts_per_image..max_texts_per_image,
          use_sequential \in BOOLEAN, s \in 1..max_sequential_sections :
        /\ bg' = b
        /\ remaining_texts' = n
        /\ texts_drawn' = n
        /\ IF use_sequential
             THEN /\ num_sections' = s
                  /\ pc' = "section_loop"
                  /\ singles_total' = singles_total
             ELSE /\ s = 1
                  /\ num_sections' = 0
                  /\ pc' = "singleton_loop"
                  /\ singles_total' = n
    /\ section_idx' = 0
    /\ j' = 0
    /\ UNCHANGED <<placed_boxes, image_annotations, composite, texts_in_section,
                   text_items, section_width, section_height, section_ret, placed, attempts>>
    /\ UNCHANGED beside_worker

----------------------------------------------------------------------------
(* The loop over sequential sections, lines 313-343, and                   *)
(* create_sequential_text_section, lines 131-244.                          *)

NoReturn == <<<<>>, <<>>, <<>>>>

\* (a variant that takes the number drawn, whatever remaining_texts is)
SectionBegin_NumberDrawn ==
    /\ pc = "section_loop"
    /\ section_idx < num_sections
    /\ remaining_texts > 0
    /\ \E r \in 2..max_texts_per_section :
        texts_in_section' = r
    /\ text_items' = <<>>
    /\ section_width' = 0
    /\ section_height' = 0
    /\ j' = 0
    /\ pc' = "prepare"
    /\ UNCHANGED <<bg, texts_drawn, placed_boxes, image_annotations, composite,
                   remaining_texts, num_sections, section_idx, section_ret,
                   singles_total, placed, attempts>>
    /\ UNCHANGED beside_worker

\* line 313-318: one more section is started
SectionBegin ==
    /\ pc = "section_loop"
    /\ section_idx < num_sections
    /\ remaining_texts > 0
    /\ \E r \in 2..max_texts_per_section :
        texts_in_section' = Min(remaining_texts, r)
    /\ text_items' = <<>>
    /\ section_width' = 0
    /\ section_height' = 0
    /\ j' = 0
    /\ pc' = "prepare"
    /\ UNCHANGED <<bg, texts_drawn, placed_boxes, image_annotations, composite, remaining_texts,
                   num_sections, section_idx, section_ret, singles_total, placed, attempts>>
    /\ UNCHANGED beside_worker

\* the section loop ends (range exhausted, or the break at line 315);
\* line 346 evaluates range(remaining_texts)
SectionsEnd ==
    /\ pc = "section_loop"
    /\ section_idx >= num_sections \/ remaining_texts <= 0
    /\ singles_total' = remaining_texts
    /\ j' = 0
    /\ pc' = "singleton_loop"
    /\ UNCHANGED <<bg, texts_drawn, placed_boxes, image_annotations, composite, remaining_texts,
                   num_sections, section_idx, texts_in_section, text_items,
                   section_width, section_height, section_ret, placed, attempts>>
    /\ UNCHANGED beside_worker

\* lines 155-191: one iteration of the preparation loop
PrepareItem ==
    /\ pc = "prepare"
    /\ j < texts_in_section
    /\ \E size \in ScaledSizes, grow \in RotationGrows, sp \in Spacings :
        IF TooSmall(size)
          THEN /\ grow = 0 /\ sp = spacing_lo
               /\ UNCHANGED <<text_items, section_width, section_height>>
          ELSE LET img == Rotated(size, grow) IN
               /\ section_width' = Max(section_width, img[1])
               /\ section_height' = section_height + img[2] + sp
               /\ text_items' = Append(text_items, img)
    /\ j' = j + 1
    /\ UNCHANGED <<pc, bg, texts_drawn, placed_boxes, image_annotations, composite, remaining_texts,
                   num_sections, section_idx, texts_in_section, section_ret,
                   singles_total, placed, attempts>>
    /\ UNCHANGED beside_worker

\* current_y before item k, given the spacings drawn at line 227
RECURSIVE CurrentY(_, _, _, _)
CurrentY(items, sps, y0, k) ==
    IF k = 1 THEN y0
    ELSE CurrentY(items, sps, y0, k - 1) + items[k - 1][2] + sps[k - 1]

\* lines 222-231: the box of item k, walking down from (x, y)
ItemBox(items, sps, x, y, k) ==
    LET cy == CurrentY(items, sps, y, k) IN
    <<x, cy, x + items[k][1], cy + items[k][2]>>

\* lines 222-244: annotations (image, position, annotation), boxes, section box
SectionResult(items, sps, x, y, w, h) ==
    << [k \in 1..Len(items) |->
           <<items[k], <<x, CurrentY(items, sps, y, k)>>,
             Annotation(ItemBox(items, sps, x, y, k))>>],
       [k \in 1..Len(items) |-> ItemBox(items, sps, x, y, k)],
       <<x, y, x + w, y + h>> >>

\* (a variant that forgets the early return of line 220)
SectionReturn_NoEarlyReturn(out, items, sps, w, h) ==
    SectionResult(items, sps, out.x, out.y, w, h)

\* lines 219-244: what the call returns after the attempt loop ended in out
SectionReturn(out, items, sps, w, h) ==
    IF ~out.placed THEN NoReturn
    ELSE SectionResult(items, sps, out.x, out.y, w, h)

\* lines 193-244: the attempt loop and, on success, the walk over the items
PlaceSection ==
    /\ pc = "prepare"
    /\ j = texts_in_section
    /\ \E out \in AttemptLoop(section_width, section_height, placed_boxes),
          sps \in [1..Len(text_items) -> Spacings] :
        /\ out.placed \/ sps = [k \in 1..Len(text_items) |-> spacing_lo]
        /\ placed' = out.placed
        /\ attempts' = out.n
        /\ section_ret' = SectionReturn(out, text_items, sps,
                                        section_width, section_height)
    /\ pc' = "section_ret"
    /\ UNCHANGED <<bg, texts_drawn, placed_boxes, image_annotations, composite, remaining_texts,
                   num_sections, section_idx, texts_in_section, j, text_items,
                   section_width, section_height, singles_total>>
    /\ UNCHANGED beside_worker

\* lines 334-343: what the worker does with the return value ret of the call:
\* the new <<placed_boxes, composite, image_annotations, remaining_texts>>
TakeSection(ret, boxes, comp, annos, remaining) ==
    LET section_annotations == ret[1] IN
    IF section_annotations # <<>>
      THEN << Append(boxes, ret[3]),
              comp \o [k \in 1..Len(section_annotations) |->
                          [size |-> section_annotations[k][1],
                           pos |-> section_annotations[k][2]]],
              annos \o [k \in 1..Len(section_annotations) |->
                           section_annotations[k][3]],
              remaining - Len(section_annotations) >>
      ELSE <<boxes, comp, annos, remaining>>

PasteSection ==
    /\ pc = "section_ret"
    /\ LET t == TakeSection(section_ret, placed_boxes, composite,
                            image_annotations, remaining_texts)
       IN /\ placed_boxes' = t[1]
          /\ composite' = t[2]
          /\ image_annotations' = t[3]
          /\ remaining_texts' = t[4]
    \* the locals of the call that returned are gone
    /\ text_items' = <<>>
    /\ section_width' = 0
    /\ section_height' = 0
    /\ section_idx' = section_idx + 1
    /\ pc' = "section_loop"
    /\ UNCHANGED <<bg, texts_drawn, num_sections, texts_in_section, j, section_ret, singles_total,
                   placed, attempts>>
    /\ UNCHANGED beside_worker

----------------------------------------------------------------------------
(* The loop over the remaining texts, lines 346-413.                       *)

\* (a variant that forgets the continue of line 397: an orphan annotation)
TakeSingleton_NoContinue(out, img, boxes, comp, annos) ==
    LET new_box == <<out.x, out.y, out.x + img[1], out.y + img[2]>> IN
    IF ~out.placed THEN <<boxes, comp, Append(annos, Annotation(new_box))>>
    ELSE << Append(boxes, new_box),
            Append(comp, [size |-> img, pos |-> <<out.x, out.y>>]),
            Append(annos, Annotation(new_box)) >>

\* lines 389-413: the new <<placed_boxes, composite, image_annotations>> after
\* the attempt loop for the image img ended in out
TakeSingleton(out, img, boxes, comp, annos) ==
    LET new_box == <<out.x, out.y, out.x + img[1], out.y + img[2]>> IN
    IF ~out.placed THEN <<boxes, comp, annos>>
    ELSE << Append(boxes, new_box),
            Append(comp, [size |-> img, pos |-> <<out.x, out.y>>]),
            Append(annos, Annotation(new_box)) >>

\* the singleton loop with its attempts tested against an empty registry
PlaceSingleton_IgnoresRegistry ==
    /\ pc = "singleton_loop"
    /\ j < singles_total
    /\ \E size \in ScaledSizes, grow \in RotationGrows :
        IF TooSmall(size)
          THEN /\ grow = 0
               /\ UNCHANGED <<placed_boxes, composite, image_annotations, placed,
                              attempts>>
          ELSE LET img == Rotated(size, grow) IN
               \E out \in AttemptLoop(img[1], img[2], <<>>) :
                   LET t == TakeSingleton(out, img, placed_boxes, composite,
                                          image_annotations)
                   IN /\ placed' = out.placed
                      /\ attempts' = out.n
                      /\ placed_boxes' = t[1]
                      /\ composite' = t[2]
                      /\ image_annotations' = t[3]
    /\ j' = j + 1
    /\ UNCHANGED <<pc, bg, texts_drawn, remaining_texts, num_sections, section_idx,
                   texts_in_section, text_items, section_width, section_height,
                   section_ret, singles_total>>
    /\ UNCHANGED beside_worker

PlaceSingleton ==
    /\ pc = "singleton_loop"
    /\ j < singles_total
    /\ \E size \in ScaledSizes, grow \in RotationGrows :
        IF TooSmall(size)
          THEN /\ grow = 0
               /\ UNCHANGED <<placed_boxes, composite, image_annotations, placed,
                              attempts>>
          ELSE LET img == Rotated(size, grow) IN
               \E out \in AttemptLoop(img[1], img[2], placed_boxes) :
                   LET t == TakeSingleton(out, img, placed_boxes, composite,
                                          image_annotations)
                   IN /\ placed' = out.placed
                      /\ attempts' = out.n
                      /\ placed_boxes' = t[1]
                      /\ composite' = t[2]
                      /\ image_annotations' = t[3]
    /\ j' = j + 1
    /\ UNCHANGED <<pc, bg, texts_drawn, remaining_texts, num_sections, section_idx,
                   texts_in_section, text_items, section_width, section_height,
                   section_ret, singles_total>>
    /\ UNCHANGED beside_worker

\* lines 415-425: the image is saved and the annotations are returned
WorkerReturn ==
    /\ pc = "singleton_loop"
    /\ j = singles_total
    /\ pc' = "done"
    /\ UNCHANGED <<bg, texts_drawn, placed_boxes, image_annotations, composite, remaining_texts,
                   num_sections, section_idx, texts_in_section, j, text_items,
                   section_width, section_height, section_ret, singles_total, placed,
                   attempts>>
    /\ UNCHANGED beside_worker

WorkerNext ==
    \/ WorkerStart
    \/ SectionBegin
    \/ SectionsEnd
    \/ PrepareItem
    \/ PlaceSection
    \/ PasteSection
    \/ PlaceSingleton
    \/ WorkerReturn

----------------------------------------------------------------------------
(* Numbers of the coordinate arithmetic of ImageFX/preprocess.py.          *)
(* A float is the pair <<n, d>>: the rational n/d in lowest terms when     *)
(* d > 0, and, as numpy float64 division produces them, +inf <<1, 0>>,     *)
(* -inf <<-1, 0>> and NaN <<0, 0>>. Rounding of float64 and the sign of    *)
(* zero are not modelled.                                                  *)

Sign(n) == IF n > 0 THEN 1 ELSE IF n < 0 THEN -1 ELSE 0
Abs(n) == IF n < 0 THEN -n ELSE n

RECURSIVE GCD(_, _)
GCD(a, b) == IF b = 0 THEN a ELSE GCD(b, a % b)

Num(n, d) ==
    IF d = 0 THEN <<Sign(n), 0>>
    ELSE LET g == GCD(Abs(n), Abs(d)) IN <<(Sign(d) * n) \div g, Abs(d) \div g>>

Q(i) == <<i, 1>>
NaN == <<0, 0>>
IsNaN(a) == a = NaN
IsFinite(a) == a[2] > 0

FAdd(a, b) ==
    IF a[2] = 0 /\ b[2] = 0 THEN (IF a = b THEN a ELSE NaN)
    ELSE Num(a[1] * b[2] + b[1] * a[2], a[2] * b[2])
FNeg(a) == <<-a[1], a[2]>>
FSub(a, b) == FAdd(a, FNeg(b))
FMul(a, b) == Num(a[1] * b[1], a[2] * b[2])
FInv(b) ==
    IF b[1] > 0 THEN <<b[2], b[1]>>
    ELSE IF b[1] < 0 THEN <<-b[2], -b[1]>>
    ELSE IF b[2] > 0 THEN <<1, 0>> ELSE NaN
FDiv(a, b) == FMul(a, FInv(b))
FLt(a, b) ==
    IF IsNaN(a) \/ IsNaN(b) THEN FALSE
    ELSE IF a[2] = 0 /\ b[2] = 0 THEN a[1] < b[1]
    ELSE a[1] * b[2] < b[1] * a[2]

\* Python's min(a, b) and max(a, b): the first argument unless the second
\* compares strictly beyond it
py_min(a, b) == IF FLt(b, a) THEN b ELSE a
py_max(a, b) == IF FLt(a, b) THEN b ELSE a

\* int(w * f) for a positive float f
IntTimes(w, f) == (w * f[1]) \div f[2]

\* Angles are whole multiples k of one angle whose cosine is 4/5 and whose sine
\* is 3/5, so that math.cos and math.sin have exact values; -1 <= k <= 1.
Cos(k) == IF k = 0 THEN Q(1) ELSE <<4, 5>>
Sin(k) == Num(3 * Sign(k), 5)

----------------------------------------------------------------------------
(* transform_coordinates, lines 217-303. A transformation dict is the      *)
(* sequence of its <<key, value>> items in insertion order.                *)

Has(dict, key) == \E i \in 1..Len(dict) : dict[i][1] = key
Get(dict, key) == dict[CHOOSE i \in 1..Len(dict) : dict[i][1] = key][2]
\* dict[key] = value: a new key goes last, a key already there keeps its place
Put(dict, key, value) ==
    IF Has(dict, key)
      THEN [i \in 1..Len(dict) |->
               IF dict[i][1] = key THEN <<key, value>> ELSE dict[i]]
      ELSE Append(dict, <<key, value>>)

\* lines 236-242
PerspectivePoint(matrix, point) ==
    LET px == point[1]
        py == point[2]
        den == FAdd(FAdd(FMul(matrix[3][1], px), FMul(matrix[3][2], py)), matrix[3][3])
    IN << FDiv(FAdd(FAdd(FMul(matrix[1][1], px), FMul(matrix[1][2], py)), matrix[1][3]),
               den),
          FDiv(FAdd(FAdd(FMul(matrix[2][1], px), FMul(matrix[2][2], py)), matrix[2][3]),
               den) >>

\* lines 246-263
RotationPoint(angle, width, height, point) ==
    LET center_x == Num(width, 2)
        center_y == Num(height, 2)
        cos_val == Cos(-angle)
        sin_val == Sin(-angle)
        px == FSub(point[1], center_x)
        py == FSub(point[2], center_y)
    IN << FAdd(FSub(FMul(px, cos_val), FMul(py, sin_val)), center_x),
          FAdd(FAdd(FMul(px, sin_val), FMul(py, cos_val)), center_y) >>

\* lines 267-281
ScalePoint(scale, width, height, point) ==
    LET center_x == Num(width, 2)
        center_y == Num(height, 2)
    IN << FAdd(FMul(FSub(point[1], center_x), scale), center_x),
          FAdd(FMul(FSub(point[2], center_y), scale), center_y) >>

\* lines 285-293
SkewPoint(skew, point) ==
    LET skew_x == IF "x" \in DOMAIN skew THEN skew.x ELSE Q(0)
        skew_y == IF "y" \in DOMAIN skew THEN skew.y ELSE Q(0)
    IN << FAdd(point[1], FMul(skew_x, point[2])),
          FAdd(point[2], FMul(skew_y, point[1])) >>

\* the clamp with the bounds width and height in place of width - 1 and
\* height - 1
ClampPoint_UpToSize(width, height, point) ==
    << py_max(Q(0), py_min(Q(width), point[1])),
       py_max(Q(0), py_min(Q(height), point[2])) >>

\* lines 296-301
ClampPoint(width, height, point) ==
    << py_max(Q(0), py_min(Q(width - 1), point[1])),
       py_max(Q(0), py_min(Q(height - 1), point[2])) >>

MapPoints(points, F(_)) == [i \in 1..Len(points) |-> F(points[i])]

\* the operations applied in the order of the dict's keys
transform_coordinates_InInsertionOrder(points, transformation, shape) ==
    LET height == shape[1]
        width == shape[2]
        One(item, q) ==
            CASE item[1] = "perspective" -> PerspectivePoint(item[2], q)
              [] item[1] = "rotation" -> RotationPoint(item[2], width, height, q)
              [] item[1] = "scale" -> ScalePoint(item[2], width, height, q)
              [] item[1] = "skew" -> SkewPoint(item[2], q)
        after[n \in 0..Len(transformation)] ==
            IF n = 0 THEN points
            ELSE [i \in 1..Len(points) |-> One(transformation[n], after[n - 1][i])]
        P5(q) == ClampPoint(width, height, q)
    IN MapPoints(after[Len(transformation)], P5)

transform_coordinates(points, transformation, shape) ==
    LET height == shape[1]
        width == shape[2]
        P1(q) == PerspectivePoint(Get(transformation, "perspective"), q)
        P2(q) == RotationPoint(Get(transformation, "rotation"), width, height, q)
        P3(q) == ScalePoint(Get(transformation, "scale"), width, height, q)
        P4(q) == SkewPoint(Get(transformation, "skew"), q)
        P5(q) == ClampPoint(width, height, q)
        s1 == IF Has(transformation, "perspective") THEN MapPoints(points, P1)
              ELSE points
        s2 == IF Has(transformation, "rotation") THEN MapPoints(s1, P2) ELSE s1
        s3 == IF Has(transformation, "scale") THEN MapPoints(s2, P3) ELSE s2
        s4 == IF Has(transformation, "skew") THEN MapPoints(s3, P4) ELSE s3
    IN MapPoints(s4, P5)

----------------------------------------------------------------------------
(* apply_distortions_with_tracking, lines 305-638.                         *)

\* the images passed in are ImgWidth x ImgHeight (below 10 pixels a side, see
\* PerspectiveMatrix)
ImgWidth == 6
ImgHeight == 5
\* explicit lists of distortions hold at most MaxDistortions names
MaxDistortions == 2

safe_distortions ==
    <<"noise", "blur", "lighting", "compression", "shadow", "color_shift",
      "sharpness", "saturation">>
geometric_distortions == <<"perspective", "rotation", "scale", "skew">>
all_distortions ==
    <<"noise", "blur", "lighting", "compression", "shadow", "color_shift",
      "perspective", "rotation", "scale", "skew", "sharpness", "saturation">>

Range(seq) == {seq[i] : i \in 1..Len(seq)}
IsGeometric(name) == name \in Range(geometric_distortions)

\* a draw of k members that may repeat
Sample_WithReplacement(population, k) == [1..k -> Range(population)]

\* random.sample(population, k): k distinct members, in any order
Sample(population, k) ==
    {q \in [1..k -> Range(population)] : \A a, b \in 1..k : a # b => q[a] # q[b]}

\* lines 340-349: the branch taken with probability 0.9
BiasedSelections ==
    UNION {UNION {LET num_safe == Min(n, r)
                      num_geometric == n - num_safe
                  IN {a \o b : a \in Sample(safe_distortions, num_safe),
                               b \in Sample(geometric_distortions, num_geometric)} :
                  r \in (n - 1)..n} :
           n \in 1..2}

\* lines 350-352
AnySelections == UNION {Sample(all_distortions, n) : n \in 1..2}

\* the lists a caller can pass as distortions
ExplicitLists == UNION {[1..n -> Range(all_distortions)] : n \in 0..MaxDistortions}

\* a region of the caller's list; coordinates may lie outside the canvas
Region(text, pts) ==
    [transcription |-> text,
     points |-> [i \in 1..Len(pts) |-> <<Q(pts[i][1]), Q(pts[i][2])>>],
     difficult |-> FALSE,
     key_cls |-> "None"]

AnnotationSets ==
    { <<>>,
      << Region("A", << <<1, 1>>, <<4, 1>>, <<4, 3>>, <<1, 3>> >>) >>,
      << Region("B", << <<-1, 2>>, <<ImgWidth + 1, ImgHeight>> >>),
         Region("A", << <<2, 0>>, <<3, 4>> >>) >> }

\* lines 520-544: cv2.getPerspectiveTransform of the corners (0,0), (w-1,0),
\* (w-1,h-1), (0,h-1) onto the corners moved by int(width * offset). With
\* |offset| < 0.1 and sides below 10 pixels every int() truncates towards the
\* unmoved value, the targets are (0,0), (w,0), (w,h), (0,h), and the matrix is
\* the stretch by w/(w-1) and h/(h-1).
PerspectiveMatrix(width, height) ==
    << <<Num(width, width - 1), Q(0), Q(0)>>,
       <<Q(0), Num(height, height - 1), Q(0)>>,
       <<Q(0), Q(0), Q(1)>> >>

\* random.uniform(-2, 2) at line 559, in the unit angle of Cos and Sin
Angles == {-1, 1}
\* random.uniform(0.95, 1.05) at line 567
ScaleFactors == {<<19, 20>>, <<1, 1>>, <<21, 20>>}
\* random.uniform(-0.1, 0.1) at lines 598 and 606
SkewCoefficients == {<<-1, 10>>, <<1, 10>>}

\* lines 592-606: skew_type and the coefficients drawn for it
SkewDraws ==
    {[type |-> "horizontal", x |-> c, y |-> Q(0)] : c \in SkewCoefficients}
    \cup {[type |-> "vertical", x |-> Q(0), y |-> c] : c \in SkewCoefficients}
    \cup {[type |-> "both", x |-> c, y |-> e] :
             c \in SkewCoefficients, e \in SkewCoefficients}

\* what one iteration of the loop draws at random for the distortion name
Draws(name, width, height) ==
    CASE name = "perspective" -> {PerspectiveMatrix(width, height)}
      [] name = "rotation" -> Angles
      [] name = "scale" -> ScaleFactors
      [] name = "skew" -> SkewDraws
      [] OTHER -> {0}

\* Where the pixel at point p of the image goes under one geometric
\* operation applied to the pixels, an item [name, draw, w, h] of image.geo:
\*   cv2.warpPerspective(img, M, (w, h)) moves p to M p              (547-550)
\*   image.rotate(angle) turns counter-clockwise about (w/2, h/2)    (560)
\*   resize to (int(w s), int(h s)), pasted at ((w - nw)//2, (h - nh)//2)
\*     on a w x h background unless s == 1.0                          (568-581)
\*   cv2.warpAffine with [[1, sx, 0], [0, 1, 0]], then with
\*     [[1, 0, 0], [sy, 1, 0]], one after the other                   (596-610)
PixelStep(g, p) ==
    CASE g.name = "perspective" -> PerspectivePoint(g.draw, p)
      [] g.name = "rotation" ->
            LET cx == Num(g.w, 2)
                cy == Num(g.h, 2)
                dx == FSub(p[1], cx)
                dy == FSub(p[2], cy)
            IN << FAdd(cx, FAdd(FMul(dx, Cos(g.draw)), FMul(dy, Sin(g.draw)))),
                  FAdd(cy, FSub(FMul(dy, Cos(g.draw)), FMul(dx, Sin(g.draw)))) >>
      [] g.name = "scale" ->
            LET new_width == IntTimes(g.w, g.draw)
                new_height == IntTimes(g.h, g.draw)
                offset_x == IF g.draw = Q(1) THEN 0 ELSE (g.w - new_width) \div 2
                offset_y == IF g.draw = Q(1) THEN 0 ELSE (g.h - new_height) \div 2
            IN << FAdd(FMul(p[1], Num(new_width, g.w)), Q(offset_x)),
                  FAdd(FMul(p[2], Num(new_height, g.h)), Q(offset_y)) >>
      [] g.name = "skew" ->
            LET h1 == IF g.draw.type \in {"horizontal", "both"}
                        THEN <<FAdd(p[1], FMul(g.draw.x, p[2])), p[2]>>
                        ELSE p
            IN IF g.draw.type \in {"vertical", "both"}
                 THEN <<h1[1], FAdd(h1[2], FMul(g.draw.y, h1[1]))>>
                 ELSE h1

\* the place of the pixel that was at p after the first n operations of geo
RECURSIVE PixelMap(_, _, _)
PixelMap(geo, n, p) ==
    IF n = 0 THEN p ELSE PixelStep(geo[n], PixelMap(geo, n - 1, p))

\* the size without the paste of lines 574-581: the resized image is kept
SizeAfter_ResizedKept(name, draw, size) ==
    IF name = "scale"
      THEN <<IntTimes(size[1], draw), IntTimes(size[2], draw)>>
      ELSE size

\* the size of the image after a geometric operation: only resize changes
\* it, and the paste at lines 574-581 restores it unless scale_factor == 1.0
SizeAfter(name, draw, size) ==
    IF name = "scale" /\ draw = Q(1)
      THEN <<IntTimes(size[1], draw), IntTimes(size[2], draw)>>
      ELSE size

\* the value stored in the dict for a geometric operation (553, 563, 584, 613)
Recorded(name, draw) ==
    IF name = "skew" THEN [x |-> draw.x, y |-> draw.y] ELSE draw

\* the iteration with a shadow that stores a scale of 1.0 in the dict
ApplyOne_ShadowRecorded(name, draw, img, record, wh) ==
    IF IsGeometric(name)
      THEN LET at == IF name = "scale" THEN img.size ELSE wh IN
           [image |-> [size |-> SizeAfter(name, draw, img.size),
                       geo |-> Append(img.geo,
                                      [name |-> name, draw |-> draw,
                                       w |-> at[1], h |-> at[2]]),
                       edits |-> img.edits],
            transformations |-> Put(record, name, Recorded(name, draw)),
            dims |-> IF name = "scale" THEN img.size ELSE wh]
      ELSE [image |-> [img EXCEPT !.edits = @ + 1],
            transformations |-> IF name = "shadow" THEN Put(record, "scale", Q(1))
                                ELSE record,
            dims |-> IF name = "shadow" THEN img.size ELSE wh]

\* one iteration of the loop of line 389 for the distortion name with the
\* values draw: the new [image, transformations, dims]
ApplyOne(name, draw, img, record, wh) ==
    IF IsGeometric(name)
      THEN LET at == IF name = "scale" THEN img.size ELSE wh IN
           [image |-> [size |-> SizeAfter(name, draw, img.size),
                       geo |-> Append(img.geo,
                                      [name |-> name, draw |-> draw,
                                       w |-> at[1], h |-> at[2]]),
                       edits |-> img.edits],
            transformations |-> Put(record, name, Recorded(name, draw)),
            dims |-> IF name = "scale" THEN img.size ELSE wh]
      ELSE [image |-> [img EXCEPT !.edits = @ + 1],
            transformations |-> record,
            dims |-> IF name = "shadow" THEN img.size ELSE wh]

\* a value of the list that is not a dict is the record [py_type |-> its type]
IsDict(anno) == "py_type" \notin DOMAIN anno

\* 'px, py = point' (lines 236, 253, 271, 289, 297) raises ValueError for a
\* point that is not a pair: the update raises when the dict and the list are
\* not empty and a region's points hold such a point
Raises(annos, record) ==
    /\ record # <<>>
    /\ annos # <<>>
    /\ \E i \in 1..Len(annos) :
           /\ IsDict(annos[i])
           /\ "points" \in DOMAIN annos[i]
           /\ \E k \in 1..Len(annos[i].points) : Len(annos[i].points[k]) # 2

\* the update without the test of the dict at line 630
UpdateAnnotations_EmptyDictApplied(annos, record, shape) ==
    IF annos # <<>>
      THEN [i \in 1..Len(annos) |->
               IF IsDict(annos[i]) /\ "points" \in DOMAIN annos[i]
                 THEN [annos[i] EXCEPT
                          !.points = transform_coordinates(@, record, shape)]
                 ELSE annos[i]]
      ELSE annos

\* lines 630-636
UpdateAnnotations(annos, record, shape) ==
    IF record # <<>> /\ annos # <<>>
      THEN [i \in 1..Len(annos) |->
               IF IsDict(annos[i]) /\ "points" \in DOMAIN annos[i]
                 THEN [annos[i] EXCEPT
                          !.points = transform_coordinates(@, record, shape)]
                 ELSE annos[i]]
      ELSE annos

\* the variables of a call before line 338, the call being at position at
DistortVars(at) ==
    /\ dpc = at
    /\ mode = "none"
    /\ distortions = <<>>
    /\ di = 0
    /\ image = [size |-> <<0, 0>>, geo |-> <<>>, edits |-> 0]
    /\ dims = <<0, 0>>
    /\ img_shape = <<0, 0>>
    /\ annotations = <<>>
    /\ updated_annotations = <<>>
    /\ transformations = <<>>

\* lines 338-366: the call, the selection of the list, the captured size,
\* the empty dict and the deep copy of the annotations
DistortCallOn(lists, modes) ==
    /\ dpc = "call"
    /\ \E annos \in lists, m \in modes :
        /\ \E d \in (CASE m = "explicit" -> ExplicitLists
                       [] m = "biased" -> BiasedSelections
                       [] OTHER -> AnySelections) :
               distortions' = d
        /\ mode' = m
        /\ annotations' = annos
        /\ updated_annotations' = annos
    /\ image' = [size |-> <<ImgWidth, ImgHeight>>, geo |-> <<>>, edits |-> 0]
    /\ dims' = <<ImgWidth, ImgHeight>>
    /\ img_shape' = <<ImgHeight, ImgWidth>>
    /\ transformations' = <<>>
    /\ di' = 0
    /\ dpc' = "background"
    /\ UNCHANGED beside_distort

DistortCall == DistortCallOn(AnnotationSets, {"explicit", "biased", "any"})

\* lines 368-386: shapes, noise and shadows on the background, each when its
\* flag is set and its random draw passes
BackgroundVariations ==
    /\ dpc = "background"
    /\ \E shapes \in BOOLEAN, noise \in BOOLEAN, shadows \in BOOLEAN :
        image' = [image EXCEPT !.edits = @ + (IF shapes THEN 1 ELSE 0)
                                           + (IF noise THEN 1 ELSE 0)
                                           + (IF shadows THEN 1 ELSE 0)]
    /\ di' = 1
    /\ dpc' = "loop"
    /\ UNCHANGED <<mode, distortions, dims, img_shape, annotations,
                   updated_annotations, transformations>>
    /\ UNCHANGED beside_distort

\* the iteration that also moves the annotations by the dict so far
ApplyDistortion_UpdatesAnnotations ==
    /\ dpc = "loop"
    /\ di <= Len(distortions)
    /\ \E draw \in Draws(distortions[di], dims[1], dims[2]) :
        LET next == ApplyOne(distortions[di], draw, image, transformations, dims) IN
        /\ image' = next.image
        /\ transformations' = next.transformations
        /\ dims' = next.dims
        /\ updated_annotations' =
               UpdateAnnotations(updated_annotations, next.transformations, img_shape)
    /\ di' = di + 1
    /\ UNCHANGED <<dpc, mode, distortions, img_shape, annotations>>
    /\ UNCHANGED beside_distort

\* lines 389-627: one iteration of the loop over the selected distortions
ApplyDistortion ==
    /\ dpc = "loop"
    /\ di <= Len(distortions)
    /\ \E draw \in Draws(distortions[di], dims[1], dims[2]) :
        LET next == ApplyOne(distortions[di], draw, image, transformations, dims) IN
        /\ image' = next.image
        /\ transformations' = next.transformations
        /\ dims' = next.dims
    /\ di' = di + 1
    /\ UNCHANGED <<dpc, mode, distortions, img_shape, annotations, updated_annotations>>
    /\ UNCHANGED beside_distort

\* the end of the call had line 366 bound the caller's list itself instead of
\* a deep copy of it: line 636 writes into the caller's regions
UpdateAndReturn_WithoutCopy ==
    /\ dpc = "loop"
    /\ di > Len(distortions)
    /\ IF Raises(updated_annotations, transformations)
         THEN /\ dpc' = "raised"
              /\ UNCHANGED <<annotations, updated_annotations>>
         ELSE /\ updated_annotations' =
                     UpdateAnnotations(updated_annotations, transformations,
                                       img_shape)
              /\ annotations' = updated_annotations'
              /\ dpc' = "done"
    /\ UNCHANGED <<mode, distortions, di, image, dims, img_shape, transformations>>
    /\ UNCHANGED beside_distort

\* lines 629-638: the dict is applied to the annotations and the call
\* returns, or the exception of transform_coordinates leaves the call
UpdateAndReturn ==
    /\ dpc = "loop"
    /\ di > Len(distortions)
    /\ IF Raises(updated_annotations, transformations)
         THEN /\ dpc' = "raised"
              /\ UNCHANGED updated_annotations
         ELSE /\ updated_annotations' =
                     UpdateAnnotations(updated_annotations, transformations,
                                       img_shape)
              /\ dpc' = "done"
    /\ UNCHANGED <<mode, distortions, di, image, dims, img_shape, annotations,
                   transformations>>
    /\ UNCHANGED beside_distort

DistortNext ==
    \/ DistortCall
    \/ BackgroundVariations
    \/ ApplyDistortion
    \/ UpdateAndReturn

----------------------------------------------------------------------------
(* preprocess_image_with_annotations, lines 640-677.                       *)

\* the regions of one image as json.loads yields them: well formed, or with
\* a member that is not a dict, that has no 'points', or whose points hold
\* something that is not a pair
BadPoints == << <<Q(1)>>, <<Q(2), Q(2)>> >>
PreAnnotationSets ==
    { <<>>,
      << Region("A", << <<1, 1>>, <<4, 1>>, <<4, 3>>, <<1, 3>> >>) >>,
      << [py_type |-> "str"], Region("A", << <<1, 1>>, <<4, 3>> >>) >>,
      << Region("A", << <<1, 1>>, <<4, 3>> >>), [transcription |-> "C"] >>,
      << Region("A", << <<1, 1>>, <<4, 3>> >>),
         [transcription |-> "D", points |-> BadPoints] >> }

\* return False, None and return True, annotations
Failure == [ok |-> FALSE, is_none |-> TRUE, annotations |-> <<>>]
Success(annos) == [ok |-> TRUE, is_none |-> FALSE, annotations |-> annos]
NoResult == [ok |-> FALSE, is_none |-> FALSE, annotations |-> <<>>]

PreVars(at, lists) ==
    /\ ppc = at
    /\ annotation_data \in lists
    /\ pre_result = NoResult
    /\ saved = FALSE

\* lines 642-657: the image is read; an unreadable image returns at line 647,
\* a draw above distortion_prob saves the image with the regions as given
PreRead ==
    /\ ppc = "start"
    /\ \E readable \in BOOLEAN, distort \in BOOLEAN :
        IF ~readable
          THEN /\ pre_result' = Failure
               /\ ppc' = "returned"
               /\ UNCHANGED <<saved, dvars>>
          ELSE IF distort
            THEN /\ ppc' = "pass"
                 /\ dpc' = "call"
                 /\ UNCHANGED <<pre_result, saved, mode, distortions, di,
                                image, dims, img_shape, annotations,
                                updated_annotations, transformations>>
            ELSE /\ pre_result' = Success(annotation_data)
                 /\ saved' = TRUE
                 /\ ppc' = "returned"
                 /\ UNCHANGED dvars
    /\ UNCHANGED <<annotation_data, wvars, cvars, fvars, tvars, kvars, bvars, lvars, ovars>>

\* lines 660-665: the call of the pass, distortions left to the random
\* selection
PrePass ==
    /\ ppc = "pass"
    /\ DistortCallOn({annotation_data}, {"biased", "any"})

\* lines 667-677: after the pass the image is written and the pair returned;
\* an exception of the pass is caught at line 673
PreReturn ==
    /\ ppc = "pass"
    /\ dpc \in {"done", "raised"}
    /\ IF dpc = "done"
         THEN /\ saved' = TRUE
              /\ pre_result' = Success(updated_annotations)
         ELSE /\ pre_result' = Failure
              /\ UNCHANGED saved
    /\ ppc' = "returned"
    /\ UNCHANGED <<annotation_data, wvars, dvars, cvars, fvars, tvars, kvars, bvars, lvars, ovars>>

PreNext ==
    \/ PreRead
    \/ PrePass
    \/ BackgroundVariations
    \/ ApplyDistortion
    \/ UpdateAndReturn
    \/ PreReturn

----------------------------------------------------------------------------
(* The runs that write Label.txt, Cache.cach and fileState.txt:            *)
(* generate_synthetic_data, generate_det_data.py lines 246-464, and        *)
(* process_images_with_annotations, preprocess.py lines 679-783.           *)

\* num_images
NumImages == 2
\* the input Label.txt holds at most MaxLines lines
MaxLines == 2

\* a path is a directory and a file name
Path(dir, name) == [dir |-> dir, name |-> name]
\* str.replace(input_dir, output_dir) on a path
ReplaceDir(path) == IF path.dir = "input_dir" THEN Path("output_dir", path.name)
                    ELSE path

\* a future: pending, returned with a value, or raised
Pending(name) == [name |-> name, state |-> "pending", value |-> <<>>]
Finished(task) == task.state # "pending"

\* the lists a worker of generate_synthetic_data can return: no fragment
\* placed, one, or two
WorkerAnnotationLists ==
    { <<>>,
      << Annotation(<<20, 20, 40, 40>>) >>,
      << Annotation(<<20, 20, 40, 40>>), Annotation(<<20, 60, 35, 80>>) >> }

\* lines 444-451
Formatted(annos) ==
    [n \in 1..Len(annos) |->
        [transcription |-> "TEMPORARY",
         points |-> annos[n].points,
         difficult |-> FALSE,
         key_cls |-> "None"]]

\* the lines of the input Label.txt: a record of an image, a line without a
\* tab, a line whose second part is not JSON
ImageNames == {1, 2}
LineAnnotations ==
    { <<>>, << Region("A", << <<1, 1>>, <<4, 1>>, <<4, 3>>, <<1, 3>> >>) >> }
LineChoices ==
    {[kind |-> "record", path |-> Path(d, f), annotations |-> a] :
        d \in {"input_dir", "elsewhere"}, f \in ImageNames, a \in LineAnnotations}
    \cup {[kind |-> "no_tab"], [kind |-> "bad_json"]}
LabelFiles == UNION {[1..n -> LineChoices] : n \in 0..MaxLines}

\* the dict a geometric pass can leave
PassDict == << <<"rotation", 1>> >>
\* what preprocess_image_with_annotations can return for the regions annos
PreOutcomes(annos) ==
    {Failure, Success(annos),
     Success(UpdateAnnotations(annos, PassDict, <<ImgHeight, ImgWidth>>))}

FilesVars(prog, at, dirs, inputs, futures) ==
    /\ program = prog
    /\ fpc = at
    /\ files \in dirs
    /\ label_lines \in inputs
    /\ annotations_by_image = <<>>
    /\ image_paths = <<>>
    /\ tasks = futures
    /\ fk = 1
    /\ annotations_by_path = <<>>
    /\ saved_images = {}
    /\ label_file = <<>>
    /\ cache_file = <<>>
    /\ state_file = <<>>
    /\ written = {}

FilesIdle == FilesVars("none", "idle", {<<>>}, {<<>>}, <<>>)

\* lines 284-425 in a thread of the pool: the worker saves its image and
\* returns (image_filename, image_annotations), or raises before the save
GenWorker ==
    /\ program = "generate"
    /\ fpc \in {"collect", "closing"}
    /\ \E i \in 1..Len(tasks) :
        /\ tasks[i].state = "pending"
        /\ \/ \E annos \in WorkerAnnotationLists :
               /\ tasks' = [tasks EXCEPT ![i].state = "returned",
                                         ![i].value = annos]
               /\ saved_images' = saved_images \cup {Path("output_dir", tasks[i].name)}
           \/ /\ tasks' = [tasks EXCEPT ![i].state = "raised"]
              /\ UNCHANGED saved_images
    /\ UNCHANGED <<program, fpc, files, label_lines, annotations_by_image,
                   image_paths, fk, annotations_by_path, label_file, cache_file,
                   state_file, written>>
    /\ UNCHANGED beside_files

\* lines 430-435: future.result() of the next future; the exception of a
\* worker is raised again in the main thread and leaves the loop
GenCollect ==
    /\ program = "generate"
    /\ fpc = "collect"
    /\ fk <= Len(tasks)
    /\ Finished(tasks[fk])
    /\ IF tasks[fk].state = "raised"
         THEN /\ fpc' = "closing"
              /\ UNCHANGED <<fk, annotations_by_path>>
         ELSE /\ annotations_by_path' =
                     IF tasks[fk].value # <<>>
                       THEN Put(annotations_by_path, tasks[fk].name, tasks[fk].value)
                       ELSE annotations_by_path
              /\ fk' = fk + 1
              /\ fpc' = IF fk = Len(tasks) THEN "write" ELSE "collect"
    /\ UNCHANGED <<program, files, label_lines, annotations_by_image, image_paths,
                   tasks, saved_images, label_file, cache_file, state_file,
                   written>>
    /\ UNCHANGED beside_files

\* the exit of the with block at line 428 on an exception: the pool waits for
\* its workers, then the exception leaves generate_synthetic_data
GenClose ==
    /\ program = "generate"
    /\ fpc = "closing"
    /\ \A i \in 1..Len(tasks) : Finished(tasks[i])
    /\ fpc' = "raised"
    /\ UNCHANGED <<program, files, label_lines, annotations_by_image, image_paths,
                   tasks, fk, annotations_by_path, saved_images, label_file,
                   cache_file, state_file, written>>
    /\ UNCHANGED beside_files

\* lines 437-464
GenWrite ==
    /\ program = "generate"
    /\ fpc = "write"
    /\ LET line(item) == <<Path("output_dir", item[1]), Formatted(item[2])>>
           lines == [n \in 1..Len(annotations_by_path) |->
                        line(annotations_by_path[n])]
       IN /\ label_file' = lines
          /\ cache_file' = lines
    /\ state_file' = [n \in 1..Len(annotations_by_path) |->
                         <<Path("output_dir", annotations_by_path[n][1]), 1>>]
    /\ written' = {"Label.txt", "Cache.cach", "fileState.txt"}
    /\ fpc' = "done"
    /\ UNCHANGED <<program, files, label_lines, annotations_by_image, image_paths,
                   tasks, fk, annotations_by_path, saved_images>>
    /\ UNCHANGED beside_files

\* the dicts after the first n lines (lines 703-713)
RECURSIVE Loaded(_, _)
Loaded(lines, n) ==
    IF n = 0 THEN [by_image |-> <<>>, paths |-> <<>>]
    ELSE LET before == Loaded(lines, n - 1)
             line == lines[n]
         IN IF line.kind = "record"
              THEN [by_image |-> Put(before.by_image, line.path.name,
                                     line.annotations),
                    paths |-> Put(before.paths, line.path.name, line.path)]
              ELSE before

\* lines 701-745: the label file is loaded and a task is submitted for every
\* listed file that has a record; json.loads raising on a line ends the loop,
\* the except of line 714 returns
ProcLoad ==
    /\ program = "process"
    /\ fpc = "load"
    /\ IF \E n \in 1..Len(label_lines) : label_lines[n].kind = "bad_json"
         THEN /\ fpc' = "returned"
              /\ UNCHANGED <<annotations_by_image, image_paths, tasks>>
         ELSE LET dicts == Loaded(label_lines, Len(label_lines))
                  submitted == SelectSeq(files,
                                   LAMBDA f : Has(dicts.by_image, f))
              IN /\ annotations_by_image' = dicts.by_image
                 /\ image_paths' = dicts.paths
                 /\ tasks' = [n \in 1..Len(submitted) |-> Pending(submitted[n])]
                 /\ fpc' = IF submitted = <<>> THEN "write" ELSE "collect"
    /\ UNCHANGED <<program, files, label_lines, fk, annotations_by_path,
                   saved_images, label_file, cache_file, state_file, written>>
    /\ UNCHANGED beside_files

\* preprocess_image_with_annotations in a thread of the pool
ProcWorker ==
    /\ program = "process"
    /\ fpc = "collect"
    /\ \E i \in 1..Len(tasks) :
        /\ tasks[i].state = "pending"
        /\ \E out \in PreOutcomes(Get(annotations_by_image, tasks[i].name)) :
            /\ tasks' = [tasks EXCEPT ![i].state = "returned", ![i].value = out]
            /\ saved_images' =
                   IF out.ok THEN saved_images \cup {Path("output_dir", tasks[i].name)}
                   ELSE saved_images
    /\ UNCHANGED <<program, fpc, files, label_lines, annotations_by_image,
                   image_paths, fk, annotations_by_path, label_file, cache_file,
                   state_file, written>>
    /\ UNCHANGED beside_files

\* lines 748-763
ProcCollect ==
    /\ program = "process"
    /\ fpc = "collect"
    /\ fk <= Len(tasks)
    /\ Finished(tasks[fk])
    /\ LET filename == tasks[fk].name
           out == tasks[fk].value
           new_path == IF Has(image_paths, filename)
                         THEN ReplaceDir(Get(image_paths, filename))
                         ELSE Path("output_dir", filename)
       IN annotations_by_path' =
              IF out.ok /\ out.annotations # <<>>
                THEN Put(annotations_by_path, new_path, out.annotations)
                ELSE annotations_by_path
    /\ fk' = fk + 1
    /\ fpc' = IF fk = Len(tasks) THEN "write" ELSE "collect"
    /\ UNCHANGED <<program, files, label_lines, annotations_by_image, image_paths,
                   tasks, saved_images, label_file, cache_file, state_file,
                   written>>
    /\ UNCHANGED beside_files

\* the writer that lists in fileState.txt every file a task was submitted for
ProcWrite_StateOfEveryTask ==
    /\ program = "process"
    /\ fpc = "write"
    /\ label_file' = annotations_by_path
    /\ cache_file' = annotations_by_path
    /\ state_file' = [n \in 1..Len(tasks) |->
                         <<Path("output_dir", tasks[n].name), 1>>]
    /\ written' = {"Label.txt", "Cache.cach", "fileState.txt"}
    /\ fpc' = "done"
    /\ UNCHANGED <<program, files, label_lines, annotations_by_image, image_paths,
                   tasks, fk, annotations_by_path, saved_images>>
    /\ UNCHANGED beside_files

\* lines 765-783
ProcWrite ==
    /\ program = "process"
    /\ fpc = "write"
    /\ label_file' = annotations_by_path
    /\ cache_file' = annotations_by_path
    /\ state_file' = [n \in 1..Len(annotations_by_path) |->
                         <<annotations_by_path[n][1], 1>>]
    /\ written' = {"Label.txt", "Cache.cach", "fileState.txt"}
    /\ fpc' = "done"
    /\ UNCHANGED <<program, files, label_lines, annotations_by_image, image_paths,
                   tasks, fk, annotations_by_path, saved_images>>
    /\ UNCHANGED beside_files

FilesNext ==
    \/ GenWorker
    \/ GenCollect
    \/ GenClose
    \/ GenWrite
    \/ ProcLoad
    \/ ProcWorker
    \/ ProcCollect
    \/ ProcWrite

----------------------------------------------------------------------------
(* The attempt of lines 377-394 at a chosen position: two fragments tried  *)
(* one after the other on a canvas of CanvasWidth x CanvasHeight.          *)

CanvasWidth == 600
CanvasHeight == 300
\* the positions of the second fragment are taken every GridStepX, GridStepY
\* pixels of its valid rectangle, and at the two places of ScenarioPositions
GridStepX == 40
GridStepY == 35

\* text_img.width, text_img.height of the two fragments
FragmentSizes == << <<100, 40>>, <<120, 50>> >>

\* lines 378-381 for a fragment of size
ValidPositions(size) ==
    (min_edge_distance..(CanvasWidth - size[1] - min_edge_distance))
        \X (min_edge_distance..(CanvasHeight - size[2] - min_edge_distance))

FirstPositions == {<<50, 50>>, <<300, 200>>} \cap ValidPositions(FragmentSizes[1])
ScenarioPositions == {<<140, 55>>, <<200, 50>>}
\* places where the second box, grown by min_distance, just touches the box
\* [50, 50, 150, 90] from the right or from below, and the places one pixel
\* further away
TouchingPositions == {<<160, 55>>, <<161, 55>>, <<60, 100>>, <<60, 101>>}
SecondPositions ==
    {p \in ValidPositions(FragmentSizes[2]) :
        \/ /\ (p[1] - min_edge_distance) % GridStepX = 0
           /\ (p[2] - min_edge_distance) % GridStepY = 0
        \/ p \in ScenarioPositions
        \/ p \in TouchingPositions}

CanvasVars(at, draws) ==
    /\ tpc = at
    /\ canvas_boxes = <<>>
    /\ positions \in draws
    /\ accepted = <<>>

CanvasIdle == CanvasVars("idle", {<<>>})

\* lines 386-394: the box at the position drawn is tested against the
\* registry and appended when check_overlap is false
TryFragment ==
    /\ tpc \in {"first", "second"}
    /\ LET n == IF tpc = "first" THEN 1 ELSE 2
           x == positions[n][1]
           y == positions[n][2]
           new_box == <<x, y, x + FragmentSizes[n][1], y + FragmentSizes[n][2]>>
       IN IF ~check_overlap(canvas_boxes, new_box, default_min_distance)
            THEN /\ canvas_boxes' = Append(canvas_boxes, new_box)
                 /\ accepted' = Append(accepted, TRUE)
            ELSE /\ accepted' = Append(accepted, FALSE)
                 /\ UNCHANGED canvas_boxes
    /\ tpc' = IF tpc = "first" THEN "second" ELSE "end"
    /\ UNCHANGED positions
    /\ UNCHANGED beside_canvas

----------------------------------------------------------------------------
(* clean_nan_from_file, ocr_data/cleaner.py lines 31-110.                  *)

\* the file holds at most MaxFileLines lines and the cleaner runs MaxRuns times
MaxFileLines == 2
MaxRuns == 2

\* A coordinate is a JSON value with the text str() gives for it: an int, the
\* float NaN (the literal NaN of json.loads), a string.
Coord(type, text) == [type |-> type, text |-> text]
One == Coord("int", "1")
Two == Coord("int", "2")
FloatNaN == Coord("float", "nan")
\* str.lower() on the texts of the model
Lower(text) == IF text \in {"NaN", "NAN", "Nan"} THEN "nan" ELSE text

Entry(text, pts) == [transcription |-> text, points |-> pts]
EntryChoices ==
    [A |-> Entry("A", << <<One, Two>>, <<Two, Two>> >>),
     B |-> Entry("B", << <<Two, One>> >>),
     N |-> Entry("N", << <<One, Two>>, <<Two, FloatNaN>> >>),
     M |-> Entry("M", << <<FloatNaN, One>> >>),
     S |-> Entry("S", << <<Coord("str", "NaN"), One>> >>),
     C |-> [transcription |-> "C"]]

\* the lists of entries the lines of the model hold
DataChoices ==
    LET e == EntryChoices IN
    { <<>>, <<e.A>>, <<e.M>>, <<e.A, e.N, e.B>>, <<e.S, e.B, e.A>>, <<e.C, e.N>> }

\* A line is the text before its first tab (the blanks it starts with, lead,
\* and the rest, filename), the JSON text after the tab, and its end (eol).
\* A JSON text is unparsable, or the data it parses to written in a style:
\* "dumps" is the text json.dumps gives, "other" another spelling of the
\* same data.
Json(style, data) == [parsable |-> TRUE, style |-> style, data |-> data]
BadJson == [parsable |-> FALSE, style |-> "other", data |-> <<>>]
Record(lead, filename, json, eol) ==
    [kind |-> "record", lead |-> lead, filename |-> filename, json |-> json,
     eol |-> eol]
BlankLine ==
    [kind |-> "blank", lead |-> " ", filename |-> "", json |-> BadJson,
     eol |-> "\n"]
TablessLine ==
    [kind |-> "tabless", lead |-> "", filename |-> "img", json |-> BadJson,
     eol |-> "\n"]
CleanerLineChoices ==
    {Record("", "img", Json(st, d), "\n") :
        st \in {"dumps", "other"}, d \in DataChoices}
    \cup {Record(" ", "img", Json("dumps", d), "\n") :
             d \in {<<EntryChoices.A>>, <<EntryChoices.M>>}}
    \cup {Record("", "img", BadJson, "\n"), BlankLine, TablessLine}

\* the last line of a file may lack its newline
WithoutNewline(file) ==
    [n \in 1..Len(file) |->
        IF n = Len(file) /\ file[n].kind # "blank"
          THEN [file[n] EXCEPT !.eol = ""] ELSE file[n]]
FileChoices ==
    LET ended == UNION {[1..n -> CleanerLineChoices] : n \in 0..MaxFileLines}
    IN ended \cup {WithoutNewline(f) : f \in ended}

\* lines 72-86
has_nan(entry) ==
    /\ "points" \in DOMAIN entry
    /\ \E p \in 1..Len(entry.points) : \E c \in 1..Len(entry.points[p]) :
           \/ Lower(entry.points[p][c].text) = "nan"
           \/ entry.points[p][c].text = "NaN"

\* the variant that writes every parsable line anew
clean_line_AlwaysRewritten(line) ==
    IF line.kind # "record" \/ ~line.json.parsable THEN line
    ELSE Record("", line.filename,
                Json("dumps", SelectSeq(line.json.data, LAMBDA e : ~has_nan(e))),
                "\n")

\* lines 48-102: what one line of the file becomes
clean_line(line) ==
    IF line.kind # "record" \/ ~line.json.parsable THEN line
    ELSE LET data == line.json.data
             filtered_data == SelectSeq(data, LAMBDA e : ~has_nan(e))
             removed_count == Len(data) - Len(filtered_data)
         IN IF removed_count > 0
              THEN Record("", line.filename, Json("dumps", filtered_data), "\n")
              ELSE line

CleanerVars(existence, contents) ==
    /\ file_exists \in existence
    /\ file_lines \in contents
    /\ original_lines = file_lines
    /\ previous_lines = file_lines
    /\ runs = 0

CleanerIdle == CleanerVars({FALSE}, {<<>>})

\* lines 31-110: one run
CleanRun ==
    /\ runs < MaxRuns
    /\ file_lines' =
           IF file_exists
             THEN [n \in 1..Len(file_lines) |-> clean_line(file_lines[n])]
             ELSE file_lines
    /\ previous_lines' = file_lines
    /\ runs' = runs + 1
    /\ UNCHANGED <<file_exists, original_lines>>
    /\ UNCHANGED beside_cleaner

----------------------------------------------------------------------------
(* transform_bboxes_2x3, SynthData/OCRDataGenerator/preprocessing.py       *)
(* lines 11-58.                                                            *)

\* the lists passed hold at most MaxRegions regions
MaxRegions == 2

\* int() of a float: the fraction is cut off, towards zero
IntOf(a) == Sign(a[1]) * (Abs(a[1]) \div a[2])

BoxRegion(text, bbox) == [text |-> text, bbox |-> bbox]
\* regions with a bbox of four values, of three and of five
BoxRegionChoices ==
    {BoxRegion("a", <<1, 2, 5, 4>>), BoxRegion("b", <<0, 0, 3, 3>>),
     BoxRegion("c", <<1, 2, 5>>), BoxRegion("d", <<1, 2, 5, 4, 9>>)}
RegionLists == UNION {[1..n -> BoxRegionChoices] : n \in 0..MaxRegions}

\* M_scale and M_shear of preprocess_image (lines 81-84 and 97-100)
AffineMatrices ==
    {<< <<f, Q(0), Q(0)>>, <<Q(0), f, Q(0)>> >> : f \in {<<6, 5>>, <<3, 2>>}}
    \cup {<< <<Q(1), sx, Q(0)>>, <<sy, Q(1), Q(0)>> >> :
             sx \in {<<-1, 50>>, <<1, 50>>}, sy \in {<<-1, 50>>, <<1, 50>>}}

\* cv2.transform of one point by the 2x3 matrix m (line 40)
AffinePoint(m, p) ==
    << FAdd(FAdd(FMul(m[1][1], Q(p[1])), FMul(m[1][2], Q(p[2]))), m[1][3]),
       FAdd(FAdd(FMul(m[2][1], Q(p[1])), FMul(m[2][2], Q(p[2]))), m[2][3]) >>

\* the least and the greatest of a non-empty set of floats
FMin(S) == CHOOSE a \in S : \A b \in S : ~FLt(b, a)
FMax(S) == CHOOSE a \in S : \A b \in S : ~FLt(a, b)

\* lines 32-56: the region with the bounding box of its four moved corners
TransformedRegion(region, m) ==
    LET bbox == region.bbox
        corners == << <<bbox[1], bbox[2]>>, <<bbox[3], bbox[2]>>,
                      <<bbox[3], bbox[4]>>, <<bbox[1], bbox[4]>> >>
        transformed == [k \in 1..4 |-> AffinePoint(m, corners[k])]
        xs == {transformed[k][1] : k \in 1..4}
        ys == {transformed[k][2] : k \in 1..4}
    IN [text |-> region.text,
        bbox |-> <<IntOf(FMin(xs)), IntOf(FMin(ys)), IntOf(FMax(xs)), IntOf(FMax(ys))>>]

BoxesVars(at, lists, matrices) ==
    /\ bpc = at
    /\ regions \in lists
    /\ affine_M \in matrices
    /\ region_idx = 0
    /\ new_regions = <<>>

BoxesIdle == BoxesVars("idle", {<<>>}, {<<>>})

\* lines 21-56: one iteration of the loop. The unpacking at line 22 comes
\* before the test of the length at line 25 and raises ValueError for a bbox
\* that has not four values.
TransformRegion ==
    /\ bpc = "loop"
    /\ region_idx < Len(regions)
    /\ LET region == regions[region_idx + 1] IN
       IF Len(region.bbox) # 4
         THEN /\ bpc' = "raised"
              /\ UNCHANGED new_regions
         ELSE /\ new_regions' = Append(new_regions, TransformedRegion(region, affine_M))
              /\ UNCHANGED bpc
    /\ region_idx' = region_idx + 1
    /\ UNCHANGED <<regions, affine_M>>
    /\ UNCHANGED beside_boxes

\* line 58
TransformReturn ==
    /\ bpc = "loop"
    /\ region_idx = Len(regions)
    /\ bpc' = "returned"
    /\ UNCHANGED <<regions, affine_M, region_idx, new_regions>>
    /\ UNCHANGED beside_boxes

BoxesNext == TransformRegion \/ TransformReturn

----------------------------------------------------------------------------
(* The attempt loop of the worker, lines 373-413, iteration by iteration.  *)

\* a fragment that fits and one that does not
LoopImages == {<<20, 20>>, <<25, 25>>}
\* registries: empty, a box in the way of some positions, a box in the way of
\* every position
LoopRegistries ==
    {<<>>, << <<20, 20, 40, 40>> >>, << <<20, 20, 45, 102>> >>}

\* lines 378-381
PlacementRect(background, img) ==
    <<min_edge_distance, background[1] - img[1] - min_edge_distance,
      min_edge_distance, background[2] - img[2] - min_edge_distance>>

LoopVars(at, backgrounds, images, registries) ==
    /\ apc = at
    /\ loop_bg \in backgrounds
    /\ loop_img \in images
    /\ loop_boxes \in registries
    /\ loop_attempts = 0
    /\ loop_xy = <<0, 0>>
    /\ loop_placed = FALSE
    /\ loop_pastes = <<>>
    /\ loop_annotations = <<>>

LoopIdle == LoopVars("idle", {<<0, 0>>}, {<<0, 0>>}, {<<>>})

\* the iteration that goes on after a candidate was accepted
AttemptStep_NoBreak ==
    /\ apc = "loop"
    /\ loop_attempts < max_attempts
    /\ LET r == PlacementRect(loop_bg, loop_img) IN
       IF CannotFit(r)
         THEN /\ apc' = "after"
              /\ UNCHANGED <<loop_attempts, loop_xy, loop_boxes, loop_placed>>
         ELSE \E x \in Candidates(r[1], r[2]), y \in Candidates(r[3], r[4]) :
                LET new_box == <<x, y, x + loop_img[1], y + loop_img[2]>> IN
                /\ loop_attempts' = loop_attempts + 1
                /\ loop_xy' = <<x, y>>
                /\ IF ~check_overlap(loop_boxes, new_box, default_min_distance)
                     THEN /\ loop_boxes' = Append(loop_boxes, new_box)
                          /\ loop_placed' = TRUE
                     ELSE UNCHANGED <<loop_boxes, loop_placed>>
                /\ UNCHANGED apc
    /\ UNCHANGED <<loop_bg, loop_img, loop_pastes, loop_annotations>>
    /\ UNCHANGED beside_loop

\* lines 377-394: one iteration of the for-loop
AttemptStep ==
    /\ apc = "loop"
    /\ loop_attempts < max_attempts
    /\ LET r == PlacementRect(loop_bg, loop_img) IN
       IF CannotFit(r)
         THEN /\ apc' = "after"
              /\ UNCHANGED <<loop_attempts, loop_xy, loop_boxes, loop_placed>>
         ELSE \E x \in Candidates(r[1], r[2]), y \in Candidates(r[3], r[4]) :
                LET new_box == <<x, y, x + loop_img[1], y + loop_img[2]>> IN
                /\ loop_attempts' = loop_attempts + 1
                /\ loop_xy' = <<x, y>>
                /\ IF ~check_overlap(loop_boxes, new_box, default_min_distance)
                     THEN /\ loop_boxes' = Append(loop_boxes, new_box)
                          /\ loop_placed' = TRUE
                          /\ apc' = "after"
                     ELSE UNCHANGED <<loop_boxes, loop_placed, apc>>
    /\ UNCHANGED <<loop_bg, loop_img, loop_pastes, loop_annotations>>
    /\ UNCHANGED beside_loop

\* line 377: range(max_attempts) is used up
AttemptsUsedUp ==
    /\ apc = "loop"
    /\ loop_attempts = max_attempts
    /\ apc' = "after"
    /\ UNCHANGED <<loop_bg, loop_img, loop_boxes, loop_attempts, loop_xy,
                   loop_placed, loop_pastes, loop_annotations>>
    /\ UNCHANGED beside_loop

\* lines 396-413: the continue, or the paste and the annotation
AfterAttempts ==
    /\ apc = "after"
    /\ IF ~loop_placed
         THEN UNCHANGED <<loop_pastes, loop_annotations>>
         ELSE LET x == loop_xy[1]
                  y == loop_xy[2]
              IN /\ loop_pastes' =
                        Append(loop_pastes, [size |-> loop_img, pos |-> <<x, y>>])
                 /\ loop_annotations' =
                        Append(loop_annotations,
                               Annotation(<<x, y, x + loop_img[1], y + loop_img[2]>>))
    /\ apc' = "done"
    /\ UNCHANGED <<loop_bg, loop_img, loop_boxes, loop_attempts, loop_xy, loop_placed>>
    /\ UNCHANGED beside_loop

LoopNext == AttemptStep \/ AttemptsUsedUp \/ AfterAttempts

----------------------------------------------------------------------------
(* OCRPreprocessor.process_directory and process_image,                    *)
(* SynthData/OCRDataGenerator/preprocessing.py lines 127-199.              *)

\* the directory holds at most MaxImages images; the pool has num_threads
\* worker threads
MaxImages == 3
num_threads == 2

Tasks == 1..MaxImages

\* the tasks a worker thread of the pool is running
Running == {t \in Tasks : task_pc[t][1] \notin {"none", "queued", "done"}}

OcrVars(at, totals) ==
    /\ main_pc = at
    /\ total_images \in totals
    /\ task_pc = [t \in Tasks |-> <<"none", "none">>]
    /\ count_lock = 0
    /\ processed_count = 0
    /\ error_count = 0
    /\ loaded = [t \in Tasks |-> 0]
    /\ increments = [t \in Tasks |-> <<>>]

OcrIdle == OcrVars("idle", {0})

\* lines 170-182: the images are listed; with none the call returns at once
ListImages ==
    /\ main_pc = "start"
    /\ main_pc' = IF total_images = 0 THEN "returned" ELSE "submit"
    /\ UNCHANGED <<total_images, task_pc, count_lock, processed_count, error_count,
                   loaded, increments>>
    /\ UNCHANGED beside_ocr

\* lines 187-190: the next image is submitted to the executor
Submit ==
    /\ main_pc = "submit"
    /\ \E t \in 1..total_images :
        /\ task_pc[t][1] = "none"
        /\ \A u \in 1..(t - 1) : task_pc[u][1] # "none"
        /\ task_pc' = [task_pc EXCEPT ![t] = <<"queued", "none">>]
        /\ main_pc' = IF t = total_images THEN "wait" ELSE "submit"
    /\ UNCHANGED <<total_images, count_lock, processed_count, error_count, loaded,
                   increments>>
    /\ UNCHANGED beside_ocr

\* a free worker thread of the pool takes a task; lines 139-153 either reach
\* line 155 or raise and reach line 163
RunBody(t) ==
    /\ task_pc[t][1] = "queued"
    /\ Cardinality(Running) < num_threads
    /\ \E outcome \in {"processed", "error"} :
        task_pc' = [task_pc EXCEPT ![t] = <<"acquire", outcome>>]
    /\ UNCHANGED <<main_pc, total_images, count_lock, processed_count, error_count,
                   loaded, increments>>
    /\ UNCHANGED beside_ocr

\* the with statement entered without waiting for the lock
Acquire_NoLock(t) ==
    /\ task_pc[t] \in {<<"acquire", "processed">>, <<"acquire", "error">>}
    /\ count_lock' = t
    /\ task_pc' = [task_pc EXCEPT ![t] = <<"load", task_pc[t][2]>>]
    /\ UNCHANGED <<main_pc, total_images, processed_count, error_count, loaded,
                   increments>>
    /\ UNCHANGED beside_ocr

\* lines 155 and 163: with self.count_lock
Acquire(t) ==
    /\ task_pc[t] \in {<<"acquire", "processed">>, <<"acquire", "error">>}
    /\ count_lock = 0
    /\ count_lock' = t
    /\ task_pc' = [task_pc EXCEPT ![t] = <<"load", task_pc[t][2]>>]
    /\ UNCHANGED <<main_pc, total_images, processed_count, error_count, loaded,
                   increments>>
    /\ UNCHANGED beside_ocr

\* lines 156 and 164: += reads the attribute ...
Load(t) ==
    /\ task_pc[t] \in {<<"load", "processed">>, <<"load", "error">>}
    /\ loaded' = [loaded EXCEPT ![t] = IF task_pc[t][2] = "processed"
                                         THEN processed_count ELSE error_count]
    /\ task_pc' = [task_pc EXCEPT ![t] = <<"store", task_pc[t][2]>>]
    /\ UNCHANGED <<main_pc, total_images, count_lock, processed_count, error_count,
                   increments>>
    /\ UNCHANGED beside_ocr

\* ... and stores the sum
Store(t) ==
    /\ task_pc[t] \in {<<"store", "processed">>, <<"store", "error">>}
    /\ IF task_pc[t][2] = "processed"
         THEN /\ processed_count' = loaded[t] + 1
              /\ UNCHANGED error_count
         ELSE /\ error_count' = loaded[t] + 1
              /\ UNCHANGED processed_count
    /\ increments' = [increments EXCEPT ![t] = Append(@, task_pc[t][2])]
    /\ task_pc' = [task_pc EXCEPT ![t] = <<"release", task_pc[t][2]>>]
    /\ UNCHANGED <<main_pc, total_images, count_lock, loaded>>
    /\ UNCHANGED beside_ocr

\* the with block is left and the call returns (lines 158-160, 165-166)
Release(t) ==
    /\ task_pc[t] \in {<<"release", "processed">>, <<"release", "error">>}
    /\ count_lock' = IF count_lock = t THEN 0 ELSE count_lock
    /\ task_pc' = [task_pc EXCEPT ![t] = <<"done", task_pc[t][2]>>]
    /\ UNCHANGED <<main_pc, total_images, processed_count, error_count, loaded,
                   increments>>
    /\ UNCHANGED beside_ocr

\* lines 192-199: every future has completed, the executor is shut down and
\* the counters are printed
ProcessDirectoryReturn ==
    /\ main_pc = "wait"
    /\ \A t \in 1..total_images : task_pc[t][1] = "done"
    /\ main_pc' = "returned"
    /\ UNCHANGED <<total_images, task_pc, count_lock, processed_count, error_count,
                   loaded, increments>>
    /\ UNCHANGED beside_ocr

OcrNext ==
    \/ ListImages
    \/ Submit
    \/ \E t \in Tasks : RunBody(t)
    \/ \E t \in Tasks : Acquire(t)
    \/ \E t \in Tasks : Load(t)
    \/ \E t \in Tasks : Store(t)
    \/ \E t \in Tasks : Release(t)
    \/ ProcessDirectoryReturn

----------------------------------------------------------------------------
(* transform_coordinates as a function of its arguments: any list of       *)
(* points, any dict of operations, any canvas.                             *)

\* canvases are 1..MaxSide pixels wide and high
MaxSide == 3

\* coordinates as json.loads yields them: numbers in and out of the canvas,
\* and NaN
PointChoices ==
    { <<Q(0), Q(0)>>, <<Q(1), Q(2)>>, <<Q(-2), Q(1)>>, <<Q(5), Q(-1)>>,
      <<NaN, Q(1)>> }
PointLists == UNION {[1..n -> PointChoices] : n \in 0..2}

\* numpy matrices, the type stored at line 553 (a division by zero yields inf
\* or NaN): a stretch, and a matrix whose denominator px - 1 vanishes on the
\* line x = 1
Matrices ==
    { << <<Q(2), Q(0), Q(0)>>, <<Q(0), Q(2), Q(0)>>, <<Q(0), Q(0), Q(1)>> >>,
      << <<Q(1), Q(0), Q(0)>>, <<Q(0), Q(1), Q(0)>>, <<Q(1), Q(0), Q(-1)>> >> }
ScaleArguments == {<<21, 20>>, <<3, 1>>}
SkewArguments == {[x |-> <<1, 10>>, y |-> <<-1, 10>>], [x |-> Q(2)]}

\* the dicts that hold any subset of the four keys
Optional(key, values) == {<<>>} \cup {<< <<key, v>> >> : v \in values}
TransformationDicts ==
    {a \o b \o c \o d : a \in Optional("skew", SkewArguments),
                        b \in Optional("scale", ScaleArguments),
                        c \in Optional("rotation", Angles),
                        d \in Optional("perspective", Matrices)}

CoordIdle ==
    /\ cpc = "idle"
    /\ call_points = <<>>
    /\ call_transformation = <<>>
    /\ call_shape = <<0, 0>>
    /\ call_result = <<>>

CoordInit ==
    /\ WorkerInit
    /\ DistortVars("idle")
    /\ cpc = "ready"
    /\ call_points \in PointLists
    /\ call_transformation \in TransformationDicts
    /\ call_shape \in (1..MaxSide) \X (1..MaxSide)
    /\ call_result = <<>>
    /\ PreVars("idle", {<<>>})
    /\ FilesIdle
    /\ CanvasIdle /\ CleanerIdle /\ BoxesIdle /\ LoopIdle /\ OcrIdle

CoordCall ==
    /\ cpc = "ready"
    /\ call_result' =
           transform_coordinates(call_points, call_transformation, call_shape)
    /\ cpc' = "returned"
    /\ UNCHANGED <<call_points, call_transformation, call_shape>>
    /\ UNCHANGED beside_coord

----------------------------------------------------------------------------
(* The specifications.                                                     *)

\* one image of generate_synthetic_data
PreIdle == PreVars("idle", {<<>>})

Init ==
    WorkerInit /\ DistortVars("idle") /\ CoordIdle /\ PreIdle /\ FilesIdle
        /\ CanvasIdle /\ CleanerIdle /\ BoxesIdle /\ LoopIdle /\ OcrIdle

Next == WorkerNext

Spec == Init /\ [][Next]_vars

\* one call of apply_distortions_with_tracking
DistortInit ==
    WorkerInit /\ DistortVars("call") /\ CoordIdle /\ PreIdle /\ FilesIdle
        /\ CanvasIdle /\ CleanerIdle /\ BoxesIdle /\ LoopIdle /\ OcrIdle

DistortSpec == DistortInit /\ [][DistortNext]_vars

\* one call of transform_coordinates
CoordNext == CoordCall

CoordSpec == CoordInit /\ [][CoordNext]_vars

\* one run: generate_synthetic_data at line 428 with its futures submitted, or
\* process_images_with_annotations at line 701 with the directory listed
FilesInit ==
    /\ WorkerInit /\ DistortVars("idle") /\ CoordIdle /\ PreIdle /\ CanvasIdle
    /\ CleanerIdle /\ BoxesIdle /\ LoopIdle /\ OcrIdle
    /\ \/ FilesVars("generate", "collect", {<<>>}, {<<>>},
                    [i \in 1..NumImages |-> Pending(i)])
       \/ FilesVars("process", "load", {<<1, 2>>, <<2, 1>>}, LabelFiles, <<>>)

FilesSpec == FilesInit /\ [][FilesNext]_vars

\* two fragments tried one after the other on one canvas
CanvasInit ==
    WorkerInit /\ DistortVars("idle") /\ CoordIdle /\ PreIdle /\ FilesIdle
        /\ CanvasVars("first", FirstPositions \X SecondPositions)
        /\ CleanerIdle /\ BoxesIdle /\ LoopIdle /\ OcrIdle

CanvasNext == TryFragment

CanvasSpec == CanvasInit /\ [][CanvasNext]_vars

\* clean_nan_from_file run again and again on one file
CleanerInit ==
    WorkerInit /\ DistortVars("idle") /\ CoordIdle /\ PreIdle /\ FilesIdle
        /\ CanvasIdle /\ CleanerVars(BOOLEAN, FileChoices)
        /\ BoxesIdle /\ LoopIdle /\ OcrIdle

CleanerNext == CleanRun

CleanerSpec == CleanerInit /\ [][CleanerNext]_vars

\* one call of transform_bboxes_2x3
BoxesInit ==
    WorkerInit /\ DistortVars("idle") /\ CoordIdle /\ PreIdle /\ FilesIdle
        /\ CanvasIdle /\ CleanerIdle
        /\ BoxesVars("loop", RegionLists, AffineMatrices) /\ LoopIdle /\ OcrIdle

BoxesSpec == BoxesInit /\ [][BoxesNext]_vars

\* one run of the attempt loop; every step that can be taken is taken in the end
LoopInit ==
    WorkerInit /\ DistortVars("idle") /\ CoordIdle /\ PreIdle /\ FilesIdle
        /\ CanvasIdle /\ CleanerIdle /\ BoxesIdle
        /\ LoopVars("loop", Backgrounds, LoopImages, LoopRegistries) /\ OcrIdle

LoopSpec == LoopInit /\ [][LoopNext]_vars /\ WF_vars(LoopNext)

\* a new OCRPreprocessor and its call of process_directory
OcrInit ==
    WorkerInit /\ DistortVars("idle") /\ CoordIdle /\ PreIdle /\ FilesIdle
        /\ CanvasIdle /\ CleanerIdle /\ BoxesIdle /\ LoopIdle
        /\ OcrVars("start", 0..MaxImages)

OcrSpec == OcrInit /\ [][OcrNext]_vars

\* one call of preprocess_image_with_annotations
PreInit ==
    WorkerInit /\ DistortVars("idle") /\ CoordIdle
        /\ PreVars("start", PreAnnotationSets) /\ FilesIdle /\ CanvasIdle
        /\ CleanerIdle /\ BoxesIdle /\ LoopIdle /\ OcrIdle

PreSpec == PreInit /\ [][PreNext]_vars

----------------------------------------------------------------------------
(* Properties of the placement, checked under Spec.                        *)

\* the box a paste covers on the canvas
FragBox(p) == <<p.pos[1], p.pos[2], p.pos[1] + p.size[1], p.pos[2] + p.size[2]>>

\* C1: any two fragments pasted onto the same image have bounding boxes that
\* do not intersect when one of them is expanded by min_distance on every side.
C1_PastedFragmentsKeepDistance ==
    \A a, b \in 1..Len(composite) :
        a # b => ~check_overlap(<<FragBox(composite[a])>>, FragBox(composite[b]),
                                default_min_distance)

\* C2: when the attempt loop of a section ends without a position, the call
\* returns no annotations, no boxes and no section box, and the worker's step
\* that takes the return value pastes nothing, appends no annotation and
\* leaves the registry of placed boxes as it was.
C2_FailedSectionLeavesNothing ==
    [][(pc = "section_ret" /\ ~placed) =>
          /\ section_ret = NoReturn
          /\ placed_boxes' = placed_boxes
          /\ composite' = composite
          /\ image_annotations' = image_annotations
          /\ remaining_texts' = remaining_texts]_vars

\* a section of two prepared fragments whose 100 candidates were all rejected
C2_Witness ==
    /\ pc = "section_ret"
    /\ ~placed
    /\ attempts = max_attempts
    /\ Len(text_items) = 2
    /\ placed_boxes # <<>>

\* the same for a section whose union box cannot fit the canvas
C2_WitnessCannotFit ==
    /\ pc = "section_ret"
    /\ ~placed
    /\ attempts = 0
    /\ Len(text_items) = 2

\* C3: when the worker returns, the annotation list has one region per paste,
\* in the order of the pastes, each with the corners of the box pasted.
C3_AnnotationPasteParity ==
    pc = "done" =>
        /\ Len(image_annotations) = Len(composite)
        /\ \A k \in 1..Len(composite) :
               image_annotations[k].points = get_corners_from_box(FragBox(composite[k]))

\* two singletons were tried, one was pasted and the last found no position
C3_Witness ==
    /\ pc = "done"
    /\ num_sections = 0
    /\ singles_total = 2
    /\ Len(composite) = 1
    /\ ~placed
    /\ attempts = max_attempts

----------------------------------------------------------------------------
(* Properties of transform_coordinates and of the distortion pass.         *)

\* v is a number with 0 <= v <= hi
InRange(v, hi) == IsFinite(v) /\ ~FLt(v, Q(0)) /\ ~FLt(Q(hi), v)

\* C4: every point returned by transform_coordinates lies on the canvas:
\* 0 <= x' <= W-1 and 0 <= y' <= H-1, whatever the points, the dict and the
\* canvas.
C4_ReturnedPointsOnCanvas ==
    cpc = "returned" =>
        /\ Len(call_result) = Len(call_points)
        /\ \A i \in 1..Len(call_result) :
               /\ InRange(call_result[i][1], call_shape[2] - 1)
               /\ InRange(call_result[i][2], call_shape[1] - 1)

\* a call with all four operations, the perspective denominator vanishing at
\* one point and another point far off the canvas, has returned
C4_Witness ==
    /\ cpc = "returned"
    /\ Len(call_transformation) = 4
    /\ Get(call_transformation, "perspective")[3][1] = Q(1)
    /\ call_points = << <<Q(1), Q(2)>>, <<Q(5), Q(-1)>> >>
    /\ call_shape = <<2, 3>>

\* the names of the regions' points that lie off the canvas of the call
OffCanvas(annos) ==
    \E i \in 1..Len(annos) : \E k \in 1..Len(annos[i].points) :
        ~InRange(annos[i].points[k][1], ImgWidth - 1)

\* C5: a pass whose dict stays empty returns every region with the points it
\* was given, points off the canvas included.
C5_EmptyDictLeavesPolygons ==
    (dpc = "done" /\ transformations = <<>>) => updated_annotations = annotations

\* a pass over a non-empty list has returned with an empty dict, one of the
\* regions reaching off the canvas
C5_Witness ==
    /\ dpc = "done"
    /\ transformations = <<>>
    /\ distortions # <<>>
    /\ OffCanvas(annotations)
    /\ updated_annotations = annotations

\* the dict that the operations of geo leave when they run in the order f
DictInOrder(geo, f) ==
    LET d[n \in 0..Len(geo)] ==
            IF n = 0 THEN <<>>
            ELSE Put(d[n - 1], geo[f[n]].name,
                     Recorded(geo[f[n]].name, geo[f[n]].draw))
    IN d[Len(geo)]

DistinctNames(geo) ==
    \A a, b \in 1..Len(geo) : geo[a].name = geo[b].name => a = b

\* C6: for a set of geometric operations with given parameters the returned
\* polygons are the same in whatever order the operations were selected and
\* stored in the dict.
C6_SelectionOrderIrrelevant ==
    (dpc = "done" /\ DistinctNames(image.geo)) =>
        \A f \in Permutations(1..Len(image.geo)) :
            UpdateAnnotations(annotations, DictInOrder(image.geo, f), img_shape)
                = updated_annotations

\* a pass that ran skew before rotation has returned moved regions
C6_Witness ==
    /\ dpc = "done"
    /\ Len(image.geo) = 2
    /\ image.geo[1].name = "skew"
    /\ image.geo[2].name = "rotation"
    /\ updated_annotations # annotations

\* C7: every returned point is the place, on the canvas, of the pixel it
\* labelled: the point given, moved by the operations applied to the pixels
\* in the order they ran.
C7_PointsFollowPixels ==
    (dpc = "done" /\ image.geo # <<>>) =>
        \A i \in 1..Len(annotations) : \A k \in 1..Len(annotations[i].points) :
            updated_annotations[i].points[k] =
                ClampPoint(ImgWidth, ImgHeight,
                           PixelMap(image.geo, Len(image.geo),
                                    annotations[i].points[k]))

\* C8: every geometric operation applied to the image has its entry in the
\* dict, with the parameters applied, from the step that applied it on.
C8_AppliedOperationsRecorded ==
    \A n \in 1..Len(image.geo) :
        /\ Has(transformations, image.geo[n].name)
        /\ Get(transformations, image.geo[n].name)
               = Recorded(image.geo[n].name, image.geo[n].draw)

\* C9: the regions' points change in one step only, the one after the last
\* operation, and that step maps each region's points through the dict once.
C9_DictAppliedOnceAtTheEnd ==
    [][ /\ (dpc \in {"background", "loop"} /\ dpc' # "done")
            => updated_annotations' = updated_annotations
        /\ (dpc = "loop" /\ dpc' = "done") =>
            /\ di > Len(distortions)
            /\ Len(image.geo) = Cardinality({n \in 1..Len(distortions) :
                                               IsGeometric(distortions[n])})
            /\ Len(updated_annotations') = Len(annotations)
            /\ \A i \in 1..Len(annotations) :
                   updated_annotations'[i].points =
                       IF transformations = <<>> THEN annotations[i].points
                       ELSE transform_coordinates(annotations[i].points,
                                                  transformations, img_shape)
      ]_vars

\* a pass of two geometric operations has returned moved regions
C9_Witness ==
    /\ dpc = "done"
    /\ Len(distortions) = 2
    /\ Len(image.geo) = 2
    /\ updated_annotations # annotations

Photometric(list) == \A n \in 1..Len(list) : ~IsGeometric(list[n])

\* C10: the background steps and the photometric operations leave the dict
\* and the regions as they are, and a pass of photometric operations only
\* returns the regions with the points it was given.
C10_PhotometricKeepsCoordinates ==
    /\ [][ (\/ dpc = "background"
            \/ (dpc = "loop" /\ di <= Len(distortions)
                /\ ~IsGeometric(distortions[di])))
           => (/\ transformations' = transformations
               /\ updated_annotations' = updated_annotations) ]_vars
    /\ []((dpc = "done" /\ Photometric(distortions))
            => (transformations = <<>> /\ updated_annotations = annotations))

\* a pass of background steps, a shadow and one more photometric operation
\* has returned regions that reach off the canvas
C10_Witness ==
    /\ dpc = "done"
    /\ Len(distortions) = 2
    /\ Photometric(distortions)
    /\ distortions[1] = "shadow"
    /\ image.edits = 5
    /\ OffCanvas(annotations)

\* C11: a list selected at random holds one or two operations, none of them
\* twice, and in the biased branch at most one of them is geometric, the
\* others being safe.
C11_RandomSelection ==
    mode \in {"biased", "any"} =>
        /\ Len(distortions) \in 1..2
        /\ \A a, b \in 1..Len(distortions) :
               distortions[a] = distortions[b] => a = b
        /\ mode = "biased" =>
            /\ Cardinality({n \in 1..Len(distortions) :
                               IsGeometric(distortions[n])}) <= 1
            /\ \A n \in 1..Len(distortions) :
                   \/ IsGeometric(distortions[n])
                   \/ distortions[n] \in Range(safe_distortions)

\* the biased branch has selected a safe and a geometric operation and the
\* pass has run them
C11_Witness ==
    /\ dpc = "done"
    /\ mode = "biased"
    /\ Len(distortions) = 2
    /\ ~IsGeometric(distortions[1])
    /\ IsGeometric(distortions[2])

\* the denominator of lines 239 and 241 for a point
Denominator(matrix, point) ==
    FAdd(FAdd(FMul(matrix[3][1], point[1]), FMul(matrix[3][2], point[2])),
         matrix[3][3])

\* the dict without one key
Without(dict, key) == SelectSeq(dict, LAMBDA item : item[1] # key)

\* C12: a point whose perspective denominator is zero is returned as if the
\* dict held no perspective entry for it: the step is skipped for that point,
\* and the coordinates returned are finite and on the canvas.
C12_DegeneratePerspectiveSkipped ==
    (cpc = "returned" /\ Has(call_transformation, "perspective")) =>
        \A i \in 1..Len(call_points) :
            Denominator(Get(call_transformation, "perspective"), call_points[i])
                = Q(0)
            => /\ InRange(call_result[i][1], call_shape[2] - 1)
               /\ InRange(call_result[i][2], call_shape[1] - 1)
               /\ call_result[i] =
                      transform_coordinates(<<call_points[i]>>,
                          Without(call_transformation, "perspective"),
                          call_shape)[1]

----------------------------------------------------------------------------
(* Properties of preprocess_image_with_annotations.                        *)

WellFormed(anno) ==
    /\ IsDict(anno)
    /\ "points" \in DOMAIN anno
    /\ \A k \in 1..Len(anno.points) : Len(anno.points[k]) = 2

\* C13: when the pass has recorded a geometric operation, the call succeeds
\* and saves the image whatever regions are malformed: every well-formed
\* region is returned with its points mapped through the dict, every
\* malformed one is passed over.
C13_MalformedRegionSkipped ==
    (ppc = "returned" /\ dpc \in {"done", "raised"} /\ transformations # <<>>) =>
        /\ pre_result.ok
        /\ saved
        /\ Len(pre_result.annotations) = Len(annotation_data)
        /\ \A i \in 1..Len(annotation_data) :
               IF WellFormed(annotation_data[i])
                 THEN pre_result.annotations[i].points =
                          transform_coordinates(annotation_data[i].points,
                                                transformations, img_shape)
                 ELSE pre_result.annotations[i] = annotation_data[i]

----------------------------------------------------------------------------
(* Properties of the runs that write the annotation files.                 *)

OutputFiles == {"Label.txt", "Cache.cach", "fileState.txt"}

\* the records of a file that are keyed by a path
RecordsOf(file, path) == {n \in 1..Len(file) : file[n][1] = path}

\* C14: when generate_synthetic_data has ended, the three files are written
\* and every worker that returned annotations has its record in Label.txt,
\* whether or not another worker raised.
C14_RaisingWorkerDropsOnlyItsImage ==
    (program = "generate" /\ fpc \in {"done", "raised"}) =>
        /\ written = OutputFiles
        /\ \A i \in 1..Len(tasks) :
               (tasks[i].state = "returned" /\ tasks[i].value # <<>>) =>
                   RecordsOf(label_file, Path("output_dir", tasks[i].name)) # {}

\* C15: after a run Label.txt and Cache.cach hold the same records in the
\* same order, and fileState.txt holds one line with flag 1 for each path
\* that has a record in Label.txt and no other line.
C15_FilesAgree ==
    fpc = "done" =>
        /\ written = OutputFiles
        /\ label_file = cache_file
        /\ \A n \in 1..Len(state_file) :
               /\ state_file[n][2] = 1
               /\ RecordsOf(label_file, state_file[n][1]) # {}
        /\ \A n \in 1..Len(label_file) :
               Cardinality(RecordsOf(state_file, label_file[n][1])) = 1

\* process_images_with_annotations has written two records, one of them for
\* an image whose task failed or returned no region being left out
C15_Witness ==
    /\ program = "process"
    /\ fpc = "done"
    /\ Len(tasks) = 2
    /\ Len(label_file) = 1
    /\ Len(state_file) = 1

\* the same for generate_synthetic_data, two images with records
C15_WitnessGenerate ==
    /\ program = "generate"
    /\ fpc = "done"
    /\ Len(label_file) = 2
    /\ Len(state_file) = 2

\* C16: every image a worker of generate_synthetic_data has saved has exactly
\* one record in Label.txt, keyed by its output path.
C16_OneRecordPerSavedImage ==
    (program = "generate" /\ fpc = "done") =>
        \A p \in saved_images : Cardinality(RecordsOf(label_file, p)) = 1

\* C17: a line of the input label file that is not JSON is passed over: the
\* records of the other lines are loaded, a task runs for each of them whose
\* image is listed, and the output files are written.
C17_BadLineSkipped ==
    (program = "process" /\ fpc \in {"done", "returned"}) =>
        /\ fpc = "done"
        /\ written = OutputFiles
        /\ \A n \in 1..Len(label_lines) :
               label_lines[n].kind = "record" =>
                   /\ Has(annotations_by_image, label_lines[n].path.name)
                   /\ \E t \in 1..Len(tasks) :
                          /\ tasks[t].name = label_lines[n].path.name
                          /\ Finished(tasks[t])

----------------------------------------------------------------------------
(* More properties of the placement.                                       *)

\* the box a, grown by d on every side, and the box b have a point in common
MeetsExpanded(a, d, b) ==
    /\ a[1] - d <= b[3]
    /\ b[1] <= a[3] + d
    /\ a[2] - d <= b[4]
    /\ b[2] <= a[4] + d

\* C18: once the singleton loop has begun no section is attempted any more,
\* and the box of every singleton accepted keeps clear, grown by
\* min_distance, of every box the registry held before it, the section boxes
\* among them.
C18_SingletonsAfterSectionsKeepClear ==
    [][ pc = "singleton_loop" =>
          /\ pc' \in {"singleton_loop", "done"}
          /\ Len(composite') > Len(composite) =>
              /\ placed_boxes' = Append(placed_boxes, FragBox(composite'[Len(composite')]))
              /\ \A n \in 1..Len(placed_boxes) :
                     ~MeetsExpanded(FragBox(composite'[Len(composite')]),
                                    default_min_distance, placed_boxes[n])
      ]_vars

\* an image with a section of two fragments and a singleton accepted after it
C18_Witness ==
    /\ pc = "done"
    /\ section_idx >= 1
    /\ Len(placed_boxes) = 2
    /\ Len(composite) = 3
    /\ j >= 1

\* C19: on a 600 x 300 canvas with the fragment of 100 x 40 accepted at
\* (50, 50), the fragment of 120 x 50 is rejected at (140, 55) and accepted
\* at (200, 50).
C19_SecondFragmentScenario ==
    (tpc = "end" /\ positions[1] = <<50, 50>>) =>
        /\ accepted[1]
        /\ canvas_boxes[1] = <<50, 50, 150, 90>>
        /\ positions[2] = <<140, 55>> =>
               (~accepted[2] /\ Len(canvas_boxes) = 1)
        /\ positions[2] = <<200, 50>> =>
               (accepted[2] /\ canvas_boxes[2] = <<200, 50, 320, 100>>)

\* the second fragment has been accepted at (200, 50)
C19_Witness ==
    /\ tpc = "end"
    /\ positions = << <<50, 50>>, <<200, 50>> >>
    /\ accepted = <<TRUE, TRUE>>

\* the second fragment has been rejected at (140, 55)
C19_WitnessRejected ==
    /\ tpc = "end"
    /\ positions = << <<50, 50>>, <<140, 55>> >>
    /\ accepted = <<TRUE, FALSE>>

----------------------------------------------------------------------------
(* Properties of clean_nan_from_file.                                      *)

\* the region holds a coordinate that is NaN, as a float or spelled in a string
NaNRegion(entry) ==
    /\ "points" \in DOMAIN entry
    /\ \E p \in 1..Len(entry.points) : \E c \in 1..Len(entry.points[p]) :
           entry.points[p][c].text \in {"nan", "NaN", "NAN", "Nan"}

Parsable(line) == line.kind = "record" /\ line.json.parsable

----------------------------------------------------------------------------
(* Further properties of the worker's placement.                           *)

\* the placement rectangle holds no position at all
RectangleEmpty(r) == r[2] < r[1] \/ r[4] < r[3]

\* C21: a section (or fragment) is turned away for its size, before any
\* position is drawn, only when its placement rectangle
\* [margin, W - w - margin] x [margin, H - h - margin] holds no position.
C21_RejectedForSizeOnlyWhenRectangleEmpty ==
    (pc = "section_ret" /\ ~placed /\ attempts = 0) =>
        RectangleEmpty(ValidRect(section_width, section_height))

Inside(box, outer) ==
    /\ outer[1] <= box[1] /\ box[3] <= outer[3]
    /\ outer[2] <= box[2] /\ box[4] <= outer[4]

\* C23: the section box a placed section returns, which the worker reserves in
\* the registry, contains the box of every fragment of the section.
C23_SectionBoxContainsItsFragments ==
    (pc = "section_ret" /\ placed) =>
        \A k \in 1..Len(section_ret[2]) : Inside(section_ret[2][k], section_ret[3])

\* C24: every point of every annotation of the image is at least
\* min_edge_distance away from each edge of the background.
C24_AnnotationsRespectEdgeDistance ==
    \A k \in 1..Len(image_annotations) :
        \A p \in 1..Len(image_annotations[k].points) :
            LET point == image_annotations[k].points[p] IN
            /\ min_edge_distance <= point[1]
            /\ point[1] <= bg[1] - min_edge_distance
            /\ min_edge_distance <= point[2]
            /\ point[2] <= bg[2] - min_edge_distance

\* the ranges lo1..hi1 and lo2..hi2 have a value in common
RangesOverlap(lo1, hi1, lo2, hi2) == Max(lo1, lo2) <= Min(hi1, hi2)

\* the gap between the boxes a and b along the axis of the coordinates i, i + 2
Gap(a, b, i) == Max(b[i] - a[i + 2], a[i] - b[i + 2])

\* C25: check_overlap is false for an empty registry; against a registered
\* box it is true exactly when the x-range and the y-range of the new box,
\* each grown by min_distance at both ends, overlap those of the registered
\* box, touching ranges included; so two accepted boxes lie more than
\* min_distance apart along the x axis or along the y axis.
C25_OverlapIffBothRangesOverlap ==
    (tpc = "end") =>
        LET d == default_min_distance
            a == canvas_boxes[1]
            b == <<positions[2][1], positions[2][2],
                   positions[2][1] + FragmentSizes[2][1],
                   positions[2][2] + FragmentSizes[2][2]>>
        IN /\ accepted[1]
           /\ ~accepted[2] <=>
                  /\ RangesOverlap(b[1] - d, b[3] + d, a[1], a[3])
                  /\ RangesOverlap(b[2] - d, b[4] + d, a[2], a[4])
           /\ accepted[2] =>
                  /\ canvas_boxes[2] = b
                  /\ Gap(a, b, 1) > d \/ Gap(a, b, 2) > d

\* the second box was turned away at a place where, grown, it only touches the
\* first along x
C25_Witness ==
    /\ tpc = "end"
    /\ positions = << <<50, 50>>, <<160, 55>> >>
    /\ accepted = <<TRUE, FALSE>>

\* the second box was accepted one pixel further to the right
C25_WitnessAccepted ==
    /\ tpc = "end"
    /\ positions = << <<50, 50>>, <<161, 55>> >>
    /\ accepted = <<TRUE, TRUE>>

\* C27: the image never has more annotations than the number of texts drawn
\* for it, which lies between min_texts_per_image and max_texts_per_image,
\* and remaining_texts is never negative.
C27_AnnotationsWithinTextsDrawn ==
    /\ texts_drawn \in min_texts_per_image..max_texts_per_image
    /\ Len(image_annotations) <= texts_drawn
    /\ remaining_texts >= 0
    /\ pc # "start" => remaining_texts <= texts_drawn

\* one text was drawn for the image and a section, cut down to that one text,
\* has placed it
C27_Witness ==
    /\ pc = "done"
    /\ texts_drawn = 1
    /\ section_idx >= 1
    /\ Len(image_annotations) = 1
    /\ remaining_texts = 0

----------------------------------------------------------------------------
(* Further properties of apply_distortions_with_tracking.                  *)

\* C28: whatever distortions were applied, the image has the width and the
\* height of the image passed in, so img_shape, captured at line 360 before
\* the loop, is the shape of the image returned.
C28_ImageKeepsItsSize ==
    dpc \in {"background", "loop", "done", "raised"} =>
        /\ image.size = <<ImgWidth, ImgHeight>>
        /\ img_shape = <<image.size[2], image.size[1]>>

\* the call has returned an image that was scaled down and had its pixels
\* edited
C28_Witness ==
    /\ dpc = "done"
    /\ Len(distortions) = 2
    /\ Has(transformations, "scale")
    /\ Get(transformations, "scale") = <<19, 20>>
    /\ \E i \in 1..Len(distortions) : ~IsGeometric(distortions[i])

\* the regions of b are those of a up to the values of their coordinates
SameButCoordinates(a, b) ==
    /\ Len(a) = Len(b)
    /\ \A i \in 1..Len(a) :
           /\ DOMAIN a[i] = DOMAIN b[i]
           /\ \A key \in DOMAIN a[i] \ {"points"} : a[i][key] = b[i][key]
           /\ "points" \in DOMAIN a[i] =>
                  /\ Len(a[i].points) = Len(b[i].points)
                  /\ \A k \in 1..Len(a[i].points) :
                         Len(a[i].points[k]) = Len(b[i].points[k])

\* C29: the call never changes the list the caller passed, and the list it
\* returns has the caller's regions in their order, each with its
\* transcription, difficult and key_cls and as many points as it had; only the
\* coordinates of the points may differ.
C29_OnlyCoordinatesChange ==
    [][ /\ dpc # "call" => annotations' = annotations
        /\ dpc' = "done" => SameButCoordinates(annotations', updated_annotations')
      ]_vars

\* the call has returned two regions, with coordinates that differ from the
\* caller's
C29_Witness ==
    /\ dpc = "done"
    /\ Len(annotations) = 2
    /\ updated_annotations # annotations

----------------------------------------------------------------------------
(* Properties of transform_bboxes_2x3.                                     *)

\* C26: the call returns, whatever regions it is given, the transformed
\* regions of those whose bbox has four values, in their order; a region
\* with another number of values is left out and nothing is raised.
C26_BadBoxSkipped ==
    bpc \in {"returned", "raised"} =>
        /\ bpc = "returned"
        /\ LET good == SelectSeq(regions, LAMBDA r : Len(r.bbox) = 4)
           IN new_regions = [k \in 1..Len(good) |-> TransformedRegion(good[k], affine_M)]

----------------------------------------------------------------------------
(* Properties of the attempt loop.                                         *)

LoopBox == <<loop_xy[1], loop_xy[2], loop_xy[1] + loop_img[1], loop_xy[2] + loop_img[2]>>

\* C22: at most max_attempts positions are tried for a fragment; the first one
\* whose box keeps clear of the registry is accepted and none is tried after
\* it; as long as none is accepted nothing is pasted or annotated and the
\* registry stays as it was; and the loop comes to its end.
C22_AttemptLoopBoundedFirstFit ==
    /\ [](loop_attempts <= max_attempts)
    /\ [][ /\ loop_placed =>
                /\ loop_attempts' = loop_attempts
                /\ loop_boxes' = loop_boxes
                /\ loop_placed'
           /\ ~loop_placed' =>
                /\ loop_boxes' = loop_boxes
                /\ loop_pastes' = <<>>
                /\ loop_annotations' = <<>>
           /\ loop_attempts' # loop_attempts =>
                /\ loop_attempts' = loop_attempts + 1
                /\ loop_placed' <=>
                       \A n \in 1..Len(loop_boxes) :
                           ~MeetsExpanded(LoopBox', default_min_distance, loop_boxes[n])
                /\ loop_placed' => loop_boxes' = Append(loop_boxes, LoopBox')
         ]_vars
    /\ [](apc = "done" =>
              /\ Len(loop_pastes) = (IF loop_placed THEN 1 ELSE 0)
              /\ Len(loop_annotations) = Len(loop_pastes))
    /\ <>(apc = "done")

\* every one of max_attempts positions was turned away
C22_Witness ==
    /\ apc = "done"
    /\ loop_attempts = max_attempts
    /\ ~loop_placed
    /\ loop_pastes = <<>>

\* the third position drawn was the first to be accepted
C22_WitnessThird ==
    /\ apc = "done"
    /\ loop_attempts = 3
    /\ loop_placed
    /\ Len(loop_pastes) = 1

----------------------------------------------------------------------------
(* Properties of OCRPreprocessor.process_directory.                        *)

\* the tasks that wrote the counter of the name
Wrote(name) == {t \in 1..total_images : increments[t] = <<name>>}

C30_WitnessContended ==
    \E t, u \in Tasks :
        /\ t # u
        /\ count_lock = u
        /\ task_pc[t] \in {<<"acquire", "processed">>, <<"acquire", "error">>}
        /\ task_pc[t][2] = task_pc[u][2]
        /\ task_pc[u][1] = "store"

====
